---- MODULE Spec2Model ----
(***************************************************************************)
(* TLS Security Analyzer (src/tasks/pcaptls/tls_security_analyzer.py).     *)
(*                                                                         *)
(* Python strings that the program compares or formats (endpoints, session *)
(* ids, hex cipher ids, flag names when their order matters) are sequences *)
(* of character codes, so that "<" on them is Python's lexicographic "<".  *)
(* Python None is the value None (-1) for an Optional[int], NoStr for an   *)
(* Optional[str], and the empty sequence for an optional dict.             *)
(* A dict in insertion order (sessions) is a sequence of records.          *)
(***************************************************************************)
EXTENDS FiniteSets, Integers, Sequences, TLC

VARIABLES
    backend,    \* which analyzer's analyze_pcap is running: "scapy" | "tshark"
    pc,         \* position of the run: "loop" | "analyzed" | "reported" | "crashed",
                \* and the positions of main (see the section on main)
    sessions,   \* analyze_pcap's local dict `sessions`, in insertion order
    count,      \* number of frames / output lines consumed so far
    report,     \* generate_report's return value; <<>> before it ran
    tlsPairs,   \* history: unordered endpoint pairs of frames that carried TLS data
    factPairs,  \* history: unordered endpoint pairs of frames that yielded a fact
    skeKeys,    \* history: session ids of frames carrying a ServerKeyExchange
    sessionsB,  \* second run of the swap experiment (SpecSwap); <<>> otherwise
    frames,     \* history: the frames (packets or output lines) consumed, in capture order
    method,     \* main: args.method, "tshark" | "scapy" | "both"; "none" outside main
    env,        \* main: what the run finds around it (tools, their behaviour, the capture)
    invoked,    \* main: the analyzers whose analyze_pcap was called
    exit_code,  \* main: the exit status of the process; None while it runs
    input,      \* parser: the bytes handed to ManualTLSParser (SpecParse)
    parsed      \* parser: what the call returned or that it raised

\* The state of main outside the analyzers.
mainVars == <<method, env, invoked, exit_code>>

\* The state of a call of the manual parser on its own.
parserVars == <<input, parsed>>

vars == <<backend, pc, sessions, count, report, tlsPairs, factPairs, skeKeys, sessionsB,
          frames, method, env, invoked, exit_code, input, parsed>>

-----------------------------------------------------------------------------
(* Bounds of the model *)

\* Frames (packets or tshark lines) consumed by one run.
MaxFrames == 2

\* Frames consumed by one run of the ordering experiment (SpecOrder).
MaxOrderFrames == 3

\* Largest declared length, in bytes, of the cipher list of a parser input.
MaxCipherLen == 5

-----------------------------------------------------------------------------
(* Python values *)

None == -1
NoStr == <<None>>

\* bool(x) for an Optional[int]: None and 0 are falsy.
Truthy(x) == x # None /\ x # 0

\* bool(s) for an Optional[str]: None and "" are falsy.
TruthyStr(s) == s # NoStr /\ s # <<>>

\* Python's "<" on str: lexicographic on code points, a proper prefix is smaller.
RECURSIVE LexLess(_, _)
LexLess(a, b) ==
    IF b = <<>> THEN FALSE
    ELSE IF a = <<>> THEN TRUE
    ELSE IF Head(a) < Head(b) THEN TRUE
    ELSE IF Head(a) > Head(b) THEN FALSE
    ELSE LexLess(Tail(a), Tail(b))

\* str(n) / f"{n}" for a non-negative int.
RECURSIVE DecStr(_)
DecStr(n) ==
    IF n < 10 THEN <<48 + n>> ELSE DecStr(n \div 10) \o <<48 + (n % 10)>>

\* One hex digit as printed by the "X" format type (upper case).
HexDigitUpper(d) == IF d < 10 THEN 48 + d ELSE 65 + (d - 10)

RECURSIVE HexStrUpper(_)
HexStrUpper(n) ==
    IF n < 16 THEN <<HexDigitUpper(n)>>
    ELSE HexStrUpper(n \div 16) \o <<HexDigitUpper(n % 16)>>

RECURSIVE ZeroPad(_, _)
ZeroPad(s, width) == IF Len(s) >= width THEN s ELSE ZeroPad(<<48>> \o s, width)

\* f"0x{c:04X}"
FormatCipherId(c) == <<48, 120>> \o ZeroPad(HexStrUpper(c), 4)

\* x in list
Contains(list, x) == \E i \in DOMAIN list : list[i] = x

-----------------------------------------------------------------------------
(* Registries *)

EXPORT_CIPHERS ==
    { \h0003, \h0006, \h0008, \h000B, \h000E, \h0011, \h0014, \h0017, \h0019,
      \h0026, \h0027, \h0028, \h0029, \h002A, \h002B, \h0062, \h0063, \h0064,
      \h0065, \h0066 }

RC4_CIPHERS ==
    { \h0003, \h0004, \h0005, \h0017, \h0018, \h0020, \h0024, \h0028, \h002F,
      \h0030, \h0031, \h0032, \h0033, \h0034, \h0035, \h0036, \h0037, \h0038,
      \h0039, \h003A, \h003B, \h008A, \h008B, \h00A6, \h00A7, \h00C002, \h00C007,
      \h00C00C, \h00C011, \h00C016, \h00C01B, \h00C020, \h00C025, \h00C02A,
      \h00C02F, \h00C034, \h00C039 }

NAMED_DH_GROUPS ==
    [g \in {256, 257, 258, 259, 260} |->
        CASE g = 256 -> "ffdhe2048"
          [] g = 257 -> "ffdhe3072"
          [] g = 258 -> "ffdhe4096"
          [] g = 259 -> "ffdhe6144"
          [] g = 260 -> "ffdhe8192"]

CIPHER_SUITE_NAMES ==
    [c \in { \h0000, \h0004, \h0005, \h002F, \h0035, \h003C, \h009C, \h009D,
             \hC007, \hC009, \hC00A, \hC011, \hC013, \hC014, \hC023, \hC027,
             \hC02B, \hC02C, \hC02F, \hC030, \h1301, \h1302, \h1303 } |->
        CASE c = \h0000 -> "TLS_NULL_WITH_NULL_NULL"
          [] c = \h0004 -> "TLS_RSA_WITH_RC4_128_MD5"
          [] c = \h0005 -> "TLS_RSA_WITH_RC4_128_SHA"
          [] c = \h002F -> "TLS_RSA_WITH_AES_128_CBC_SHA"
          [] c = \h0035 -> "TLS_RSA_WITH_AES_256_CBC_SHA"
          [] c = \h003C -> "TLS_RSA_WITH_AES_128_CBC_SHA256"
          [] c = \h009C -> "TLS_RSA_WITH_AES_128_GCM_SHA256"
          [] c = \h009D -> "TLS_RSA_WITH_AES_256_GCM_SHA384"
          [] c = \hC007 -> "TLS_ECDHE_ECDSA_WITH_RC4_128_SHA"
          [] c = \hC009 -> "TLS_ECDHE_ECDSA_WITH_AES_128_CBC_SHA"
          [] c = \hC00A -> "TLS_ECDHE_ECDSA_WITH_AES_256_CBC_SHA"
          [] c = \hC011 -> "TLS_ECDHE_RSA_WITH_RC4_128_SHA"
          [] c = \hC013 -> "TLS_ECDHE_RSA_WITH_AES_128_CBC_SHA"
          [] c = \hC014 -> "TLS_ECDHE_RSA_WITH_AES_256_CBC_SHA"
          [] c = \hC023 -> "TLS_ECDHE_ECDSA_WITH_AES_128_CBC_SHA256"
          [] c = \hC027 -> "TLS_ECDHE_RSA_WITH_AES_128_CBC_SHA256"
          [] c = \hC02B -> "TLS_ECDHE_ECDSA_WITH_AES_128_GCM_SHA256"
          [] c = \hC02C -> "TLS_ECDHE_ECDSA_WITH_AES_256_GCM_SHA384"
          [] c = \hC02F -> "TLS_ECDHE_RSA_WITH_AES_128_GCM_SHA256"
          [] c = \hC030 -> "TLS_ECDHE_RSA_WITH_AES_256_GCM_SHA384"
          [] c = \h1301 -> "TLS_AES_128_GCM_SHA256"
          [] c = \h1302 -> "TLS_AES_256_GCM_SHA384"
          [] c = \h1303 -> "TLS_CHACHA20_POLY1305_SHA256"]

\* CIPHER_SUITE_NAMES.get(c, "UNKNOWN")
CipherName(c) ==
    IF c \in DOMAIN CIPHER_SUITE_NAMES THEN CIPHER_SUITE_NAMES[c] ELSE "UNKNOWN"

\* The spelling of a flag name, for Python's order on the names.
FlagText(f) ==
    CASE f = "EXPORT_GRADE_CIPHER" ->
            <<69, 88, 80, 79, 82, 84, 95, 71, 82, 65, 68, 69, 95, 67, 73, 80, 72, 69, 82>>
      [] f = "RC4_CIPHER" ->
            <<82, 67, 52, 95, 67, 73, 80, 72, 69, 82>>
      [] f = "WEAK_DH_PARAMETERS" ->
            <<87, 69, 65, 75, 95, 68, 72, 95, 80, 65, 82, 65, 77, 69, 84, 69, 82, 83>>
      [] f = "EXPORT_CIPHER_OFFERED" ->
            <<69, 88, 80, 79, 82, 84, 95, 67, 73, 80, 72, 69, 82, 95, 79, 70, 70, 69, 82, 69, 68>>
      [] f = "RC4_CIPHER_OFFERED" ->
            <<82, 67, 52, 95, 67, 73, 80, 72, 69, 82, 95, 79, 70, 70, 69, 82, 69, 68>>

-----------------------------------------------------------------------------
(* class TLSSession *)

\* TLSSession.__init__(session_id, timestamp)
TLSSession(session_id, timestamp) ==
    [ session_id      |-> session_id,
      timestamp       |-> timestamp,
      client_ciphers  |-> <<>>,
      server_cipher   |-> None,
      dh_groups       |-> <<>>,
      dh_prime_size   |-> None,
      vulnerabilities |-> <<>>,
      src_ip          |-> NoStr,
      dst_ip          |-> NoStr,
      src_port        |-> None,
      dst_port        |-> None ]

\* A plausible slip: the offered flags are not suppressed by the selected ones.
Vulnerabilities_NoSuppress(s) ==
    LET selected == Truthy(s.server_cipher)
        v1 == IF selected /\ s.server_cipher \in EXPORT_CIPHERS
              THEN <<"EXPORT_GRADE_CIPHER">> ELSE <<>>
        v2 == IF selected /\ s.server_cipher \in RC4_CIPHERS
              THEN Append(v1, "RC4_CIPHER") ELSE v1
        v3 == IF Truthy(s.dh_prime_size) /\ s.dh_prime_size < 1024
              THEN Append(v2, "WEAK_DH_PARAMETERS") ELSE v2
        v4 == IF \E i \in DOMAIN s.client_ciphers : s.client_ciphers[i] \in EXPORT_CIPHERS
              THEN Append(v3, "EXPORT_CIPHER_OFFERED") ELSE v3
        v5 == IF \E i \in DOMAIN s.client_ciphers : s.client_ciphers[i] \in RC4_CIPHERS
              THEN Append(v4, "RC4_CIPHER_OFFERED") ELSE v4
    IN  v5

\* The flag list analyze_vulnerabilities builds, in the order of its appends.
Vulnerabilities(s) ==
    LET selected == Truthy(s.server_cipher)
        v1 == IF selected /\ s.server_cipher \in EXPORT_CIPHERS
              THEN <<"EXPORT_GRADE_CIPHER">> ELSE <<>>
        v2 == IF selected /\ s.server_cipher \in RC4_CIPHERS
              THEN Append(v1, "RC4_CIPHER") ELSE v1
        v3 == IF Truthy(s.dh_prime_size) /\ s.dh_prime_size < 1024
              THEN Append(v2, "WEAK_DH_PARAMETERS") ELSE v2
        has_export_offer ==
            \E i \in DOMAIN s.client_ciphers : s.client_ciphers[i] \in EXPORT_CIPHERS
        has_rc4_offer ==
            \E i \in DOMAIN s.client_ciphers : s.client_ciphers[i] \in RC4_CIPHERS
        v4 == IF has_export_offer /\ ~Contains(v3, "EXPORT_GRADE_CIPHER")
              THEN Append(v3, "EXPORT_CIPHER_OFFERED") ELSE v3
        v5 == IF has_rc4_offer /\ ~Contains(v4, "RC4_CIPHER")
              THEN Append(v4, "RC4_CIPHER_OFFERED") ELSE v4
    IN  v5

\* TLSSession.analyze_vulnerabilities
analyze_vulnerabilities(s) == [s EXCEPT !.vulnerabilities = Vulnerabilities(s)]

\* A plausible slip: only the flags of the selected cipher count.
IsVulnerable_SelectedOnly(s) ==
    Contains(s.vulnerabilities, "EXPORT_GRADE_CIPHER") \/ Contains(s.vulnerabilities, "RC4_CIPHER")

\* "is_vulnerable": len(self.vulnerabilities) > 0
IsVulnerable(s) == Len(s.vulnerabilities) > 0

\* TLSSession.to_dict (the ISO rendering of the timestamp is left out)
to_dict(s) ==
    [ session_id      |-> s.session_id,
      timestamp_unix  |-> s.timestamp,
      connection      |-> [ src_ip   |-> s.src_ip,
                            src_port |-> s.src_port,
                            dst_ip   |-> s.dst_ip,
                            dst_port |-> s.dst_port ],
      cipher_suites   |->
          [ client_offered  |->
                [i \in DOMAIN s.client_ciphers |->
                    [ id   |-> FormatCipherId(s.client_ciphers[i]),
                      name |-> CipherName(s.client_ciphers[i]) ]],
            server_selected |->
                IF Truthy(s.server_cipher)
                THEN << [ id   |-> FormatCipherId(s.server_cipher),
                          name |-> CipherName(s.server_cipher) ] >>
                ELSE <<>> ],
      diffie_hellman  |->
          [ supported_groups |-> s.dh_groups,
            named_groups     |->
                [i \in DOMAIN s.dh_groups |->
                    IF s.dh_groups[i] \in DOMAIN NAMED_DH_GROUPS
                    THEN [ text |-> NAMED_DH_GROUPS[s.dh_groups[i]], digits |-> <<>> ]
                    ELSE [ text |-> "unknown_", digits |-> DecStr(s.dh_groups[i]) ]],
            prime_size_bits  |-> s.dh_prime_size ],
      vulnerabilities |-> s.vulnerabilities,
      is_vulnerable   |-> IsVulnerable(s) ]

-----------------------------------------------------------------------------
(* class ManualTLSParser; bytes are sequences of 0..255 *)

Min(a, b) == IF a < b THEN a ELSE b

\* data[a:b] (0-based, end clipped to the buffer)
Slice(data, a, b) == SubSeq(data, a + 1, Min(b, Len(data)))

\* The value of an expression that raises (IndexError, struct.error).
Raises == -2

\* data[i]: IndexError past the end of the buffer
Index(data, i) == IF i < Len(data) THEN data[i + 1] ELSE Raises

\* struct.unpack('>H', data[pos:pos+2])[0]: struct.error unless the slice has 2 bytes
U16(data, pos) ==
    LET b == Slice(data, pos, pos + 2)
    IN  IF Len(b) = 2 THEN b[1] * 256 + b[2] ELSE Raises

\* struct.unpack('>I', b'\x00' + data[pos:pos+3])[0]: struct.error unless the
\* slice has 3 bytes
U24(data, pos) ==
    LET b == Slice(data, pos, pos + 3)
    IN  IF Len(b) = 3 THEN b[1] * 65536 + b[2] * 256 + b[3] ELSE Raises

\* A parse result: Python None is the record of type "None".
ManualNone == [ type |-> "None", ciphers |-> <<>>, cipher |-> None ]

\* The call did not return: an exception left it.
ManualRaises == [ type |-> "raises", ciphers |-> <<>>, cipher |-> None ]

\* The loop of parse_client_hello: for i in range(0, cipher_len, 2)
RECURSIVE CipherLoop(_, _, _, _)
CipherLoop(data, pos, i, cipher_len) ==
    IF i >= cipher_len THEN <<>>
    ELSE (IF pos + i + 2 <= Len(data) THEN <<U16(data, pos + i)>> ELSE <<>>)
         \o CipherLoop(data, pos, i + 2, cipher_len)

\* A plausible slip: the guard `if len(data) < 38` is missing.
parse_client_hello_NoLengthGuard(data) ==
    LET empty == [ type |-> "ClientHello", ciphers |-> <<>>, cipher |-> None ]
        session_id_len == Index(data, 34)
        pos == 35 + session_id_len
    IN  IF session_id_len = Raises THEN ManualRaises
        ELSE IF Len(data) < pos + 2 THEN empty
        ELSE LET cipher_len == U16(data, pos)
                 ciphers == CipherLoop(data, pos + 2, 0, cipher_len)
             IN  IF cipher_len = Raises \/ Contains(ciphers, Raises) THEN ManualRaises
                 ELSE [ empty EXCEPT !.ciphers = ciphers ]

parse_client_hello(data) ==
    LET empty == [ type |-> "ClientHello", ciphers |-> <<>>, cipher |-> None ]
    IN  IF Len(data) < 38 THEN empty
        ELSE LET session_id_len == Index(data, 34)
                 pos == 35 + session_id_len
             IN  IF session_id_len = Raises THEN ManualRaises
                 ELSE IF Len(data) < pos + 2 THEN empty
                 ELSE LET cipher_len == U16(data, pos)
                          ciphers == CipherLoop(data, pos + 2, 0, cipher_len)
                      IN  IF cipher_len = Raises \/ Contains(ciphers, Raises)
                          THEN ManualRaises
                          ELSE [ empty EXCEPT !.ciphers = ciphers ]

parse_server_hello(data) ==
    LET empty == [ type |-> "ServerHello", ciphers |-> <<>>, cipher |-> None ]
    IN  IF Len(data) < 38 THEN empty
        ELSE LET session_id_len == Index(data, 34)
                 pos == 35 + session_id_len
             IN  IF session_id_len = Raises THEN ManualRaises
                 ELSE IF Len(data) < pos + 2 THEN empty
                 ELSE LET cipher == U16(data, pos)
                      IN  IF cipher = Raises THEN ManualRaises
                          ELSE [ empty EXCEPT !.cipher = cipher ]

parse_handshake(data) ==
    IF Len(data) < 4 THEN ManualNone
    ELSE LET msg_type == Index(data, 0)
             msg_len  == U24(data, 1)
         IN  IF msg_type = Raises \/ msg_len = Raises THEN ManualRaises
             ELSE IF Len(data) < 4 + msg_len THEN ManualNone
             ELSE IF msg_type = 1 THEN parse_client_hello(Slice(data, 4, 4 + msg_len))
             ELSE IF msg_type = 2 THEN parse_server_hello(Slice(data, 4, 4 + msg_len))
             ELSE ManualNone

parse_tls_record(data) ==
    IF Len(data) < 5 THEN ManualNone
    ELSE LET content_type == Index(data, 0)
             version      == U16(data, 1)
             length       == U16(data, 3)
         IN  IF content_type = Raises \/ version = Raises \/ length = Raises
             THEN ManualRaises
             ELSE IF content_type # 22 THEN ManualNone
             ELSE IF Len(data) < 5 + length THEN ManualNone
             ELSE parse_handshake(Slice(data, 5, 5 + length))

-----------------------------------------------------------------------------
(* The session map of analyze_pcap *)

\* endpoint1 = f"{src_ip}:{src_port}"
Endpoint(ip, port) == ip \o <<58>> \o DecStr(port)

\* A plausible slip: the id keeps the direction of the frame.
SessionId_Directed(src_ip, src_port, dst_ip, dst_port) ==
    Endpoint(src_ip, src_port) \o <<45>> \o Endpoint(dst_ip, dst_port)

\* The bidirectional session id of both analyzers.
SessionId(src_ip, src_port, dst_ip, dst_port) ==
    LET endpoint1 == Endpoint(src_ip, src_port)
        endpoint2 == Endpoint(dst_ip, dst_port)
    IN  IF LexLess(endpoint1, endpoint2)
        THEN endpoint1 \o <<45>> \o endpoint2
        ELSE endpoint2 \o <<45>> \o endpoint1

\* session_id in sessions
HasKey(sess, sid) == \E i \in DOMAIN sess : sess[i].session_id = sid

\* The position of sessions[session_id]
KeyIndex(sess, sid) == CHOOSE i \in DOMAIN sess : sess[i].session_id = sid

\* A plausible slip: the `not in` guard is missing, every frame starts the
\* session of its key afresh.
EnsureSession_Overwrite(sess, sid, timestamp, src_ip, src_port, dst_ip, dst_port) ==
    LET fresh == [ TLSSession(sid, timestamp) EXCEPT
                     !.src_ip = src_ip, !.dst_ip = dst_ip,
                     !.src_port = src_port, !.dst_port = dst_port ]
    IN  IF HasKey(sess, sid) THEN [sess EXCEPT ![KeyIndex(sess, sid)] = fresh]
        ELSE Append(sess, fresh)

\* A plausible slip: the four connection fields are set outside the `not in`
\* block, on every frame.
EnsureSession_LastSender(sess, sid, timestamp, src_ip, src_port, dst_ip, dst_port) ==
    IF HasKey(sess, sid)
    THEN [sess EXCEPT ![KeyIndex(sess, sid)] =
             [@ EXCEPT !.src_ip = src_ip, !.dst_ip = dst_ip,
                       !.src_port = src_port, !.dst_port = dst_port]]
    ELSE Append(sess, [ TLSSession(sid, timestamp) EXCEPT
                          !.src_ip = src_ip, !.dst_ip = dst_ip,
                          !.src_port = src_port, !.dst_port = dst_port ])

\* A plausible slip: a frame of a known key re-inserts the key's session, which
\* moves it to the end of the dict.
EnsureSession_MoveToEnd(sess, sid, timestamp, src_ip, src_port, dst_ip, dst_port) ==
    IF HasKey(sess, sid)
    THEN LET i == KeyIndex(sess, sid)
         IN  Append(SubSeq(sess, 1, i - 1) \o SubSeq(sess, i + 1, Len(sess)), sess[i])
    ELSE Append(sess, [ TLSSession(sid, timestamp) EXCEPT
                          !.src_ip = src_ip, !.dst_ip = dst_ip,
                          !.src_port = src_port, !.dst_port = dst_port ])

\* if session_id not in sessions: sessions[session_id] = TLSSession(...); set the
\* four connection fields
EnsureSession(sess, sid, timestamp, src_ip, src_port, dst_ip, dst_port) ==
    IF HasKey(sess, sid) THEN sess
    ELSE Append(sess, [ TLSSession(sid, timestamp) EXCEPT
                          !.src_ip = src_ip, !.dst_ip = dst_ip,
                          !.src_port = src_port, !.dst_port = dst_port ])

-----------------------------------------------------------------------------
(* ScapyAnalyzer.analyze_pcap: one iteration of `for pkt in packets`        *)
(*                                                                         *)
(* A packet is what rdpcap and Scapy's dissection hand to the loop:        *)
(*   time, src_ip, dst_ip (NoStr without IP/IPv6), src_port, dst_port      *)
(*   (None without TCP), layer ("TLS": pkt.haslayer(TLS); "Raw": a Raw     *)
(*   layer and no TLS layer; "none"), tls_raises (whether TLS(raw_data)    *)
(*   raises), ch / sh (the TLSClientHello / TLSServerHello of the TLS      *)
(*   layer, a sequence of zero or one record), load (the Raw bytes).       *)

\* tls_layer is set (a Scapy packet object, which is truthy)
ScapyTlsLayer(pkt) ==
    \/ pkt.layer = "TLS"
    \/ pkt.layer = "Raw" /\ pkt.src_port # None /\ ~pkt.tls_raises

\* manual_parse
ScapyManualParse(pkt) ==
    IF pkt.layer = "Raw" /\ pkt.src_port # None /\ pkt.tls_raises
    THEN parse_tls_record(pkt.load)
    ELSE ManualNone

\* A plausible slip: the guard `if not tls_layer and not manual_parse` is missing.
ScapySkips_OnlyAddresses(pkt) ==
    \/ ~TruthyStr(pkt.src_ip) \/ ~TruthyStr(pkt.dst_ip)
    \/ pkt.src_port = None \/ pkt.dst_port = None

\* The two `continue` guards of the loop body.
ScapySkips(pkt) ==
    \/ ~ScapyTlsLayer(pkt) /\ ScapyManualParse(pkt) = ManualNone
    \/ ~TruthyStr(pkt.src_ip) \/ ~TruthyStr(pkt.dst_ip)
    \/ pkt.src_port = None \/ pkt.dst_port = None

\* The updates of the session after it was looked up.
ScapyUpdate(session, pkt) ==
    LET manual_parse == ScapyManualParse(pkt)
    IN  IF manual_parse # ManualNone
        THEN IF manual_parse.type = "ClientHello"
             THEN IF manual_parse.ciphers # <<>>
                  THEN [session EXCEPT !.client_ciphers = manual_parse.ciphers]
                  ELSE session
             ELSE IF manual_parse.type = "ServerHello"
             THEN IF manual_parse.cipher # None
                  THEN [session EXCEPT !.server_cipher = manual_parse.cipher]
                  ELSE session
             ELSE session
        ELSE LET s1 == IF pkt.ch # <<>> /\ pkt.ch[1].ciphers # <<>>
                       THEN [session EXCEPT !.client_ciphers = pkt.ch[1].ciphers]
                       ELSE session
                 s2 == IF pkt.ch # <<>> /\ pkt.ch[1].groups # <<>>
                       THEN [s1 EXCEPT !.dh_groups = pkt.ch[1].groups[1]]
                       ELSE s1
                 s3 == IF pkt.sh # <<>> /\ Truthy(pkt.sh[1].cipher)
                       THEN [s2 EXCEPT !.server_cipher = pkt.sh[1].cipher]
                       ELSE s2
             IN  s3

\* One iteration of the packet loop on the session map.
ScapyPacket(sess, pkt) ==
    IF ScapySkips(pkt) THEN sess
    ELSE LET session_id == SessionId(pkt.src_ip, pkt.src_port, pkt.dst_ip, pkt.dst_port)
             sess1 == EnsureSession(sess, session_id, pkt.time,
                                    pkt.src_ip, pkt.src_port, pkt.dst_ip, pkt.dst_port)
             i == KeyIndex(sess1, session_id)
         IN  [sess1 EXCEPT ![i] = ScapyUpdate(sess1[i], pkt)]

-----------------------------------------------------------------------------
(* str methods used on the tshark output *)

\* s.startswith(prefix)
StartsWith(s, prefix) ==
    Len(s) >= Len(prefix) /\ SubSeq(s, 1, Len(prefix)) = prefix

\* Whitespace that str.strip() removes (space, \t, \n, \v, \f, \r).
IsSpace(c) == c = 32 \/ (c >= 9 /\ c <= 13)

RECURSIVE LStrip(_)
LStrip(s) == IF s # <<>> /\ IsSpace(Head(s)) THEN LStrip(Tail(s)) ELSE s

RECURSIVE RStrip(_)
RStrip(s) ==
    IF s # <<>> /\ IsSpace(s[Len(s)]) THEN RStrip(SubSeq(s, 1, Len(s) - 1)) ELSE s

\* s.strip()
Strip(s) == RStrip(LStrip(s))

\* s.split(sep) for a one-character separator: always at least one piece.
RECURSIVE SplitAcc(_, _, _)
SplitAcc(s, sep, piece) ==
    IF s = <<>> THEN <<piece>>
    ELSE IF Head(s) = sep THEN <<piece>> \o SplitAcc(Tail(s), sep, <<>>)
    ELSE SplitAcc(Tail(s), sep, Append(piece, Head(s)))

Split(s, sep) == SplitAcc(s, sep, <<>>)

\* The value of a digit in the given base, None when it is no digit of it.
DigitValue(c, base) ==
    LET v == IF c >= 48 /\ c <= 57 THEN c - 48
             ELSE IF c >= 97 /\ c <= 102 THEN c - 87
             ELSE IF c >= 65 /\ c <= 70 THEN c - 55
             ELSE None
    IN  IF v # None /\ v < base THEN v ELSE None

RECURSIVE DigitsValue(_, _, _)
DigitsValue(s, base, acc) ==
    IF s = <<>> THEN acc
    ELSE IF DigitValue(Head(s), base) = None THEN None
    ELSE DigitsValue(Tail(s), base, acc * base + DigitValue(Head(s), base))

\* int(s, base) for an unsigned literal without underscores; ValueError is None.
\* With base 16 an "0x" / "0X" prefix is accepted.
ParseInt(s, base) ==
    LET t == Strip(s)
        digits == IF base = 16 /\ (StartsWith(t, <<48, 120>>) \/ StartsWith(t, <<48, 88>>))
                  THEN SubSeq(t, 3, Len(t)) ELSE t
    IN  IF digits = <<>> THEN None ELSE DigitsValue(digits, base, 0)

\* The try block that reads one cipher-suite string: hex with an 0x prefix,
\* decimal otherwise; None when int() raises ValueError.
ParseCipherString(cs) ==
    IF StartsWith(cs, <<48, 120>>) \/ StartsWith(cs, <<48, 88>>)
    THEN ParseInt(cs, 16)
    ELSE ParseInt(cs, 10)

-----------------------------------------------------------------------------
(* TSharkAnalyzer.analyze_pcap: one iteration of the loop over output lines *)
(*                                                                         *)
(* A line is its fields after line.split('|'): nparts (their number), time *)
(* (parts[0] as a float), src_ip, dst_ip (parts[1], parts[2]), src_port,   *)
(* dst_port (parts[3], parts[4] as ints, 0 when empty), handshake_type     *)
(* (parts[5]), ciphersuite (parts[6]), ciphersuites (parts[7]), groups     *)
(* (parts[8]); the text fields are strings.                                *)

\* len(tshark_fields)
TSharkFieldCount == 10

\* for cs in cipher_strings: append the ids that parse and are not yet there
RECURSIVE AppendNewCiphers(_, _)
AppendNewCiphers(ciphers, cipher_strings) ==
    IF cipher_strings = <<>> THEN ciphers
    ELSE LET cipher_id == ParseCipherString(Strip(Head(cipher_strings)))
         IN  AppendNewCiphers(
                 IF cipher_id # None /\ ~Contains(ciphers, cipher_id)
                 THEN Append(ciphers, cipher_id) ELSE ciphers,
                 Tail(cipher_strings))

\* for g in group_strings: int(g), decimal only
RECURSIVE AppendNewGroups(_, _)
AppendNewGroups(groups, group_strings) ==
    IF group_strings = <<>> THEN groups
    ELSE LET group_id == ParseInt(Strip(Head(group_strings)), 10)
         IN  AppendNewGroups(
                 IF group_id # None /\ ~Contains(groups, group_id)
                 THEN Append(groups, group_id) ELSE groups,
                 Tail(group_strings))

\* `if not line` and `if len(parts) < len(tshark_fields)`
TSharkSkips(line) == line.nparts < TSharkFieldCount

\* int(parts[k]) if parts[k] else 0; None when int() raises ValueError.
TSharkPort(text) == IF text = <<>> THEN 0 ELSE ParseInt(text, 10)

\* The conversions of lines 303-307 raise ValueError, which nothing catches.
TSharkRaises(line) ==
    ~TSharkSkips(line) /\ (line.src_port = None \/ line.dst_port = None)

\* The updates of the session after it was looked up.
TSharkUpdate(session, line) ==
    IF line.handshake_type = <<49>>
    THEN LET s1 == IF line.ciphersuites # <<>>
                   THEN [session EXCEPT !.client_ciphers =
                            AppendNewCiphers(@, Split(line.ciphersuites, 44))]
                   ELSE session
         IN  IF line.groups # <<>>
             THEN [s1 EXCEPT !.dh_groups = AppendNewGroups(@, Split(line.groups, 44))]
             ELSE s1
    ELSE IF line.handshake_type = <<50>>
    THEN IF line.ciphersuite # <<>> /\ ParseCipherString(Strip(line.ciphersuite)) # None
         THEN [session EXCEPT !.server_cipher = ParseCipherString(Strip(line.ciphersuite))]
         ELSE session
    ELSE session

\* One iteration of the line loop on the session map.
TSharkLine(sess, line) ==
    IF TSharkSkips(line) THEN sess
    ELSE LET session_id == SessionId(line.src_ip, line.src_port, line.dst_ip, line.dst_port)
             sess1 == EnsureSession(sess, session_id, line.time,
                                    line.src_ip, line.src_port, line.dst_ip, line.dst_port)
             i == KeyIndex(sess1, session_id)
         IN  [sess1 EXCEPT ![i] = TSharkUpdate(sess1[i], line)]

\* for session in sessions.values(): session.analyze_vulnerabilities()
AnalyzeAll(sess) == [i \in DOMAIN sess |-> analyze_vulnerabilities(sess[i])]

-----------------------------------------------------------------------------
(* generate_report *)

\* sum(1 for s in sessions if flag in s.vulnerabilities)
CountFlag(sess, flag) ==
    Cardinality({i \in DOMAIN sess : Contains(sess[i].vulnerabilities, flag)})

RECURSIVE SumLens(_)
SumLens(sess) ==
    IF sess = <<>> THEN 0 ELSE Len(Head(sess).vulnerabilities) + SumLens(Tail(sess))

\* A plausible slip: the flags are counted, not the sessions carrying any.
CountVulnerable_CountsFlags(sess) == SumLens(sess)

\* len([s for s in sessions if s.vulnerabilities])
CountVulnerable(sess) ==
    Cardinality({i \in DOMAIN sess : sess[i].vulnerabilities # <<>>})

\* "total_sessions": len(sessions)
TotalSessions(sess) == Len(sess)

generate_report(sess) ==
    [ analysis_metadata |->
          [ total_sessions      |-> TotalSessions(sess),
            vulnerable_sessions |-> CountVulnerable(sess) ],
      vulnerability_summary |->
          [ export_grade_ciphers  |-> CountFlag(sess, "EXPORT_GRADE_CIPHER"),
            rc4_ciphers           |-> CountFlag(sess, "RC4_CIPHER"),
            weak_dh_parameters    |-> CountFlag(sess, "WEAK_DH_PARAMETERS"),
            export_cipher_offered |-> CountFlag(sess, "EXPORT_CIPHER_OFFERED"),
            rc4_cipher_offered    |-> CountFlag(sess, "RC4_CIPHER_OFFERED") ],
      sessions |-> [i \in DOMAIN sess |-> to_dict(sess[i])] ]

-----------------------------------------------------------------------------
(* Captures: the packets and tshark lines a run may read *)

\* An IPv4 address as Scapy and tshark print it.
IpText(o) ==
    DecStr(o[1]) \o <<46>> \o DecStr(o[2]) \o <<46>> \o DecStr(o[3]) \o <<46>> \o DecStr(o[4])

\* [client, server] endpoints. In the first the client's endpoint string is the
\* smaller one, in the second the server's; in the third both share the
\* address and the ports order differently as strings ("443" < "80") and as ints.
Connections ==
    { [ client |-> <<IpText(<<10, 0, 0, 1>>), 5000>>, server |-> <<IpText(<<10, 0, 0, 2>>), 443>> ],
      [ client |-> <<IpText(<<10, 0, 0, 2>>), 5000>>, server |-> <<IpText(<<10, 0, 0, 1>>), 443>> ],
      [ client |-> <<IpText(<<10, 0, 0, 1>>), 80>>,   server |-> <<IpText(<<10, 0, 0, 1>>), 443>> ] }

\* n zero bytes
Zeros(n) == [i \in 1..n |-> 0]

\* Big-endian bytes of a 16-bit and a 24-bit length.
Bytes16(n) == <<n \div 256, n % 256>>
Bytes24(n) == <<n \div 65536, (n \div 256) % 256, n % 256>>

\* The concatenated 2-byte ids of a cipher list.
RECURSIVE CipherBytes(_)
CipherBytes(ciphers) ==
    IF ciphers = <<>> THEN <<>> ELSE Bytes16(Head(ciphers)) \o CipherBytes(Tail(ciphers))

\* A TLS record (content type 22, version 3.1) holding one handshake message.
HandshakeRecord(msg_type, body) ==
    <<22, 3, 1>> \o Bytes16(4 + Len(body)) \o <<msg_type>> \o Bytes24(Len(body)) \o body

\* version, random, an empty session id
HelloPrefix == <<3, 3>> \o Zeros(32) \o <<0>>

ClientHelloBytes(ciphers) ==
    HandshakeRecord(1, HelloPrefix \o Bytes16(2 * Len(ciphers)) \o CipherBytes(ciphers)
                       \o <<1, 0>>)

ServerHelloBytes(cipher) == HandshakeRecord(2, HelloPrefix \o Bytes16(cipher) \o <<0>>)

\* A ServerKeyExchange (handshake type 12) whose body starts with the 2-byte
\* length of the DH prime, then the prime, the generator and the public value.
ServerKeyExchangeBytes(prime_len) ==
    HandshakeRecord(12, Bytes16(prime_len) \o Zeros(prime_len) \o <<0, 1, 2, 0, 1, 7>>)

\* A ClientHello cut off inside its random.
TruncatedClientHelloBytes == HandshakeRecord(1, <<3, 3>> \o Zeros(10))

\* Cipher lists and selected ciphers of the captures.
OfferedLists ==
    { <<\h0003, \h002F>>,
      <<\hC02F, \hC030, \hC02B, \hC02C>>,
      <<\h1301, \h1302, \h1303>>,
      <<\h0006>> }

SelectedCiphers == { \h0000, \h0003, \hC02F, \h1301, \h0004 }

\* What a packet holds above TCP, whatever its endpoints.
ScapyPayloads ==
    \* dissected by Scapy into a TLS layer
    { [ dir |-> "c2s", has_tcp |-> TRUE, layer |-> "TLS", tls_raises |-> FALSE,
        ch |-> << [ ciphers |-> c, groups |-> << <<23, 256>> >> ] >>, sh |-> <<>>,
        load |-> ClientHelloBytes(c) ] : c \in OfferedLists }
    \cup
    { [ dir |-> "s2c", has_tcp |-> TRUE, layer |-> "TLS", tls_raises |-> FALSE,
        ch |-> <<>>, sh |-> << [ cipher |-> c ] >>,
        load |-> ServerHelloBytes(c) ] : c \in SelectedCiphers }
    \cup
    \* raw TCP payloads on which TLS(raw_data) raises: the manual parser reads them
    { [ dir |-> "c2s", has_tcp |-> TRUE, layer |-> "Raw", tls_raises |-> TRUE, ch |-> <<>>, sh |-> <<>>,
        load |-> ClientHelloBytes(<<\h0004, \h0004>>) ],
      [ dir |-> "s2c", has_tcp |-> TRUE, layer |-> "Raw", tls_raises |-> TRUE, ch |-> <<>>, sh |-> <<>>,
        load |-> ServerHelloBytes(\h0005) ],
      [ dir |-> "s2c", has_tcp |-> TRUE, layer |-> "Raw", tls_raises |-> TRUE, ch |-> <<>>, sh |-> <<>>,
        load |-> ServerKeyExchangeBytes(80) ],
      [ dir |-> "c2s", has_tcp |-> TRUE, layer |-> "Raw", tls_raises |-> TRUE, ch |-> <<>>, sh |-> <<>>,
        load |-> TruncatedClientHelloBytes ],
    \* a raw payload that TLS(raw_data) dissects: a layer without any hello
      [ dir |-> "s2c", has_tcp |-> TRUE, layer |-> "Raw", tls_raises |-> FALSE, ch |-> <<>>, sh |-> <<>>,
        load |-> ServerKeyExchangeBytes(80) ],
    \* no payload at all (a bare ACK)
      [ dir |-> "c2s", has_tcp |-> TRUE, layer |-> "none", tls_raises |-> FALSE,
        ch |-> <<>>, sh |-> <<>>, load |-> <<>> ],
    \* a TLS layer that is not carried by TCP
      [ dir |-> "c2s", has_tcp |-> FALSE, layer |-> "TLS", tls_raises |-> FALSE,
        ch |-> << [ ciphers |-> <<\h0003, \h002F>>, groups |-> <<>> ] >>, sh |-> <<>>,
        load |-> ClientHelloBytes(<<\h0003, \h002F>>) ] }

\* The packet of payload p on connection conn; without TCP it has no ports.
ScapyPkt(conn, p, time) ==
    LET src == IF p.dir = "c2s" THEN conn.client ELSE conn.server
        dst == IF p.dir = "c2s" THEN conn.server ELSE conn.client
    IN  [ time |-> time,
          src_ip |-> src[1], dst_ip |-> dst[1],
          src_port |-> IF p.has_tcp THEN src[2] ELSE None,
          dst_port |-> IF p.has_tcp THEN dst[2] ELSE None,
          layer |-> p.layer, tls_raises |-> p.tls_raises,
          ch |-> p.ch, sh |-> p.sh, load |-> p.load ]

\* A cipher id as tshark prints it: 0x%04x
HexDigitLower(d) == IF d < 10 THEN 48 + d ELSE 97 + (d - 10)

TSharkHex(c) ==
    <<48, 120, HexDigitLower((c \div 4096) % 16), HexDigitLower((c \div 256) % 16),
      HexDigitLower((c \div 16) % 16), HexDigitLower(c % 16)>>

\* ",".join of the strings
RECURSIVE JoinComma(_)
JoinComma(strs) ==
    IF strs = <<>> THEN <<>>
    ELSE IF Len(strs) = 1 THEN strs[1]
    ELSE strs[1] \o <<44>> \o JoinComma(Tail(strs))

\* The handshake fields of an output line, whatever its endpoints.
TSharkPayloads ==
    { [ dir |-> "c2s", nparts |-> 10, tcp_layers |-> 1, handshake_type |-> <<49>>, ciphersuite |-> <<>>,
        ciphersuites |-> JoinComma([i \in DOMAIN c |-> TSharkHex(c[i])]),
        groups |-> <<50, 51, 44, 50, 53, 54>> ] : c \in OfferedLists }
    \cup
    { [ dir |-> "s2c", nparts |-> 10, tcp_layers |-> 1, handshake_type |-> <<50>>, ciphersuite |-> TSharkHex(c),
        ciphersuites |-> <<>>, groups |-> <<>> ] : c \in SelectedCiphers }
    \cup
    \* decimal ids, one of them twice; a decimal selected cipher
    { [ dir |-> "c2s", nparts |-> 10, tcp_layers |-> 1, handshake_type |-> <<49>>, ciphersuite |-> <<>>,
        ciphersuites |-> <<52, 44, 52>>, groups |-> <<>> ],
      [ dir |-> "s2c", nparts |-> 10, tcp_layers |-> 1, handshake_type |-> <<50>>, ciphersuite |-> <<53>>,
        ciphersuites |-> <<>>, groups |-> <<>> ],
    \* a ServerKeyExchange line (type 12), a ClientHello line without ciphers
      [ dir |-> "s2c", nparts |-> 10, tcp_layers |-> 1, handshake_type |-> <<49, 50>>, ciphersuite |-> <<>>,
        ciphersuites |-> <<>>, groups |-> <<>> ],
      [ dir |-> "c2s", nparts |-> 10, tcp_layers |-> 1, handshake_type |-> <<49>>, ciphersuite |-> <<>>,
        ciphersuites |-> <<>>, groups |-> <<>> ],
    \* a line with fewer fields than requested
      [ dir |-> "c2s", nparts |-> 9, tcp_layers |-> 1, handshake_type |-> <<49>>,
        ciphersuite |-> <<>>, ciphersuites |-> <<>>, groups |-> <<>> ],
    \* a ClientHello carried over a tunnel that itself runs over TCP
      [ dir |-> "c2s", nparts |-> 10, tcp_layers |-> 2, handshake_type |-> <<49>>,
        ciphersuite |-> <<>>, ciphersuites |-> TSharkHex(\h0003), groups |-> <<>> ] }

\* tshark prints every occurrence of a field in the frame (-E occurrence=a),
\* joined by commas: a frame with two TCP headers has two tcp.srcport values.
TSharkPortText(port, tcp_layers) == JoinComma([i \in 1..tcp_layers |-> DecStr(port)])

TSharkOutputLine(conn, p, time) ==
    LET src == IF p.dir = "c2s" THEN conn.client ELSE conn.server
        dst == IF p.dir = "c2s" THEN conn.server ELSE conn.client
    IN  [ nparts |-> p.nparts, time |-> time,
          src_ip |-> src[1], dst_ip |-> dst[1],
          src_port |-> TSharkPort(TSharkPortText(src[2], p.tcp_layers)),
          dst_port |-> TSharkPort(TSharkPortText(dst[2], p.tcp_layers)),
          handshake_type |-> p.handshake_type, ciphersuite |-> p.ciphersuite,
          ciphersuites |-> p.ciphersuites, groups |-> p.groups ]

-----------------------------------------------------------------------------
(* History: what the consumed frames carried, told from the frames alone *)

\* The unordered pair of a frame's endpoints.
EndpointPair(f) == { <<f.src_ip, f.src_port>>, <<f.dst_ip, f.dst_port>> }

\* The packet hands the loop offered ciphers, offered groups or a selected cipher.
ScapyYieldsFact(pkt) ==
    LET m == ScapyManualParse(pkt)
    IN  IF m # ManualNone
        THEN m.ciphers # <<>> \/ m.cipher # None
        ELSE ScapyTlsLayer(pkt)
             /\ \/ pkt.ch # <<>> /\ (pkt.ch[1].ciphers # <<>> \/ pkt.ch[1].groups # <<>>)
                \/ pkt.sh # <<>>

\* The line hands the loop offered ciphers, offered groups or a selected cipher.
TSharkYieldsFact(line) ==
    \/ line.handshake_type = <<49>> /\ (line.ciphersuites # <<>> \/ line.groups # <<>>)
    \/ line.handshake_type = <<50>> /\ line.ciphersuite # <<>>

\* The payload is a handshake record whose message is a ServerKeyExchange with
\* a prime of prime_len bytes.
IsServerKeyExchange(load, prime_len) ==
    /\ Len(load) >= 11
    /\ load[1] = 22
    /\ load[6] = 12
    /\ U16(load, 9) = prime_len

-----------------------------------------------------------------------------
(* The run of one analyzer: analyze_pcap, then generate_report *)

\* The surroundings of a run that does not go through main.
NoEnv == [ tshark_available |-> FALSE, scapy_available |-> FALSE,
           tshark_outcome |-> "none", scapy_outcome |-> "none", capture |-> <<>> ]

Init ==
    /\ backend \in {"scapy", "tshark"}
    /\ pc = "loop"
    /\ sessions = <<>>
    /\ count = 0
    /\ report = <<>>
    /\ tlsPairs = {}
    /\ factPairs = {}
    /\ skeKeys = {}
    /\ sessionsB = <<>>
    /\ frames = <<>>
    /\ method = "none"
    /\ env = NoEnv
    /\ invoked = {}
    /\ exit_code = None
    /\ input = <<>>
    /\ parsed = ManualNone

\* ScapyAnalyzer.analyze_pcap reads the next packet of the capture.
ScapyFrame ==
    /\ pc = "loop"
    /\ backend = "scapy"
    /\ count < MaxFrames
    /\ \E conn \in Connections, p \in ScapyPayloads :
          LET pkt == ScapyPkt(conn, p, count + 1)
          IN  /\ sessions' = ScapyPacket(sessions, pkt)
              /\ tlsPairs' = IF ScapySkips(pkt) THEN tlsPairs
                             ELSE tlsPairs \cup {EndpointPair(pkt)}
              /\ factPairs' = IF ~ScapySkips(pkt) /\ ScapyYieldsFact(pkt)
                              THEN factPairs \cup {EndpointPair(pkt)} ELSE factPairs
              /\ skeKeys' = IF p.has_tcp /\ IsServerKeyExchange(pkt.load, 80)
                            THEN skeKeys \cup {EndpointPair(pkt)} ELSE skeKeys
              /\ frames' = Append(frames, pkt)
    /\ count' = count + 1
    /\ UNCHANGED <<backend, pc, report, sessionsB>>
    /\ UNCHANGED mainVars
    /\ UNCHANGED parserVars

\* TSharkAnalyzer.analyze_pcap reads the next line of tshark's output. A
\* ValueError of float() / int() on the line's fields is caught nowhere: it
\* leaves analyze_pcap and main, and the process ends with a traceback.
TSharkFrame ==
    /\ pc = "loop"
    /\ backend = "tshark"
    /\ count < MaxFrames
    /\ \E conn \in Connections, p \in TSharkPayloads :
          LET line == TSharkOutputLine(conn, p, count + 1)
          IN  /\ frames' = Append(frames, line)
              /\ IF TSharkRaises(line)
                 THEN /\ pc' = "crashed"
                      /\ UNCHANGED <<sessions, tlsPairs, factPairs>>
                 ELSE /\ pc' = pc
                      /\ sessions' = TSharkLine(sessions, line)
                      /\ tlsPairs' = IF TSharkSkips(line) THEN tlsPairs
                                     ELSE tlsPairs \cup {EndpointPair(line)}
                      /\ factPairs' = IF ~TSharkSkips(line) /\ TSharkYieldsFact(line)
                                      THEN factPairs \cup {EndpointPair(line)} ELSE factPairs
    /\ count' = count + 1
    /\ UNCHANGED <<backend, report, skeKeys, sessionsB>>
    /\ UNCHANGED mainVars
    /\ UNCHANGED parserVars

\* The input is exhausted: every session is classified and the list returned.
Analyze ==
    /\ pc = "loop"
    /\ sessions' = AnalyzeAll(sessions)
    /\ pc' = "analyzed"
    /\ UNCHANGED <<backend, count, report, tlsPairs, factPairs, skeKeys, sessionsB, frames>>
    /\ UNCHANGED mainVars
    /\ UNCHANGED parserVars

\* main calls generate_report on the returned list.
Report ==
    /\ pc = "analyzed"
    /\ report' = generate_report(sessions)
    /\ pc' = "reported"
    /\ UNCHANGED <<backend, sessions, count, tlsPairs, factPairs, skeKeys, sessionsB, frames>>
    /\ UNCHANGED mainVars
    /\ UNCHANGED parserVars

Next == ScapyFrame \/ TSharkFrame \/ Analyze \/ Report

Spec == Init /\ [][Next]_vars

-----------------------------------------------------------------------------
(* The classifier on arbitrary TLSSession objects *)

\* Longest offered list of a drawn session.
MaxOffered == 2

\* Ids that are export only, RC4 only, both, neither, and the NULL suite.
ClassifierCiphers == { \h0000, \h0003, \h0004, \h0006, \h1301, \hC02F }

ClassifierPrimeSizes == { None, 0, 512, 640, 1023, 1024, 2048 }

RECURSIVE SeqsUpTo(_, _)
SeqsUpTo(S, n) ==
    IF n = 0 THEN { <<>> }
    ELSE SeqsUpTo(S, n - 1)
         \cup { Append(q, x) : q \in { r \in SeqsUpTo(S, n - 1) : Len(r) = n - 1 }, x \in S }

ClassifierInputs ==
    { [ TLSSession(<<>>, 0) EXCEPT
          !.client_ciphers = offered, !.server_cipher = selected, !.dh_prime_size = prime ] :
      offered \in SeqsUpTo(ClassifierCiphers, MaxOffered),
      selected \in ClassifierCiphers \cup {None},
      prime \in ClassifierPrimeSizes }

InitClassify ==
    /\ backend = "none"
    /\ pc = "loop"
    /\ sessions \in { <<s>> : s \in ClassifierInputs }
    /\ count = 0
    /\ report = <<>>
    /\ tlsPairs = {}
    /\ factPairs = {}
    /\ skeKeys = {}
    /\ sessionsB = <<>>
    /\ frames = <<>>
    /\ method = "none"
    /\ env = NoEnv
    /\ invoked = {}
    /\ exit_code = None
    /\ input = <<>>
    /\ parsed = ManualNone

NextClassify == Analyze \/ Report

SpecClassify == InitClassify /\ [][NextClassify]_vars

-----------------------------------------------------------------------------
(* The two hellos of one connection, read in either order *)

ScapyIsClientHello(p) ==
    IF p.tls_raises THEN parse_tls_record(p.load).type = "ClientHello" ELSE p.ch # <<>>

ScapyIsServerHello(p) ==
    IF p.tls_raises THEN parse_tls_record(p.load).type = "ServerHello" ELSE p.sh # <<>>

InitSwap ==
    /\ backend \in {"scapy", "tshark"}
    /\ pc = "swap"
    /\ sessions = <<>>
    /\ count = 0
    /\ report = <<>>
    /\ tlsPairs = {}
    /\ factPairs = {}
    /\ skeKeys = {}
    /\ sessionsB = <<>>
    /\ frames = <<>>
    /\ method = "none"
    /\ env = NoEnv
    /\ invoked = {}
    /\ exit_code = None
    /\ input = <<>>
    /\ parsed = ManualNone

\* ScapyAnalyzer.analyze_pcap on the capture (ClientHello, ServerHello) and on the
\* capture (ServerHello, ClientHello).
ScapySwap ==
    /\ pc = "swap"
    /\ backend = "scapy"
    /\ \E conn \in Connections, c \in ScapyPayloads, s \in ScapyPayloads :
          /\ c.has_tcp /\ c.dir = "c2s" /\ ScapyIsClientHello(c)
          /\ s.has_tcp /\ s.dir = "s2c" /\ ScapyIsServerHello(s)
          /\ sessions' = AnalyzeAll(ScapyPacket(ScapyPacket(<<>>, ScapyPkt(conn, c, 1)),
                                                ScapyPkt(conn, s, 2)))
          /\ sessionsB' = AnalyzeAll(ScapyPacket(ScapyPacket(<<>>, ScapyPkt(conn, s, 1)),
                                                 ScapyPkt(conn, c, 2)))
    /\ pc' = "swapped"
    /\ count' = 2
    /\ UNCHANGED <<backend, report, tlsPairs, factPairs, skeKeys, frames>>
    /\ UNCHANGED mainVars
    /\ UNCHANGED parserVars

\* TSharkAnalyzer.analyze_pcap on the two orders of the two lines.
TSharkSwap ==
    /\ pc = "swap"
    /\ backend = "tshark"
    /\ \E conn \in Connections, c \in TSharkPayloads, s \in TSharkPayloads :
          /\ c.nparts >= TSharkFieldCount /\ c.dir = "c2s" /\ c.handshake_type = <<49>>
          /\ ~TSharkRaises(TSharkOutputLine(conn, c, 1))
          /\ s.nparts >= TSharkFieldCount /\ s.dir = "s2c" /\ s.handshake_type = <<50>>
          /\ sessions' = AnalyzeAll(TSharkLine(TSharkLine(<<>>, TSharkOutputLine(conn, c, 1)),
                                               TSharkOutputLine(conn, s, 2)))
          /\ sessionsB' = AnalyzeAll(TSharkLine(TSharkLine(<<>>, TSharkOutputLine(conn, s, 1)),
                                                TSharkOutputLine(conn, c, 2)))
    /\ pc' = "swapped"
    /\ count' = 2
    /\ UNCHANGED <<backend, report, tlsPairs, factPairs, skeKeys, frames>>
    /\ UNCHANGED mainVars
    /\ UNCHANGED parserVars

NextSwap == ScapySwap \/ TSharkSwap

SpecSwap == InitSwap /\ [][NextSwap]_vars

-----------------------------------------------------------------------------
(* Longer captures of fewer kinds of frames: the order of the session map *)

\* Raw TCP payloads: the two hellos read by the manual parser, a
\* ServerKeyExchange (skipped when TLS() raises, a session without facts when
\* it does not) and a truncated ClientHello.
ScapyOrderPayloads == { p \in ScapyPayloads : p.layer = "Raw" }

\* Lines of one cipher at most that do not raise: ClientHellos, a
\* ServerKeyExchange, a short line.
TSharkOrderPayloads ==
    { p \in TSharkPayloads :
        p.ciphersuite = <<>> /\ p.tcp_layers = 1 /\ Len(p.ciphersuites) <= 6 }

ScapyOrderFrame ==
    /\ pc = "loop"
    /\ backend = "scapy"
    /\ count < MaxOrderFrames
    /\ \E conn \in Connections, p \in ScapyOrderPayloads :
          LET pkt == ScapyPkt(conn, p, count + 1)
          IN  /\ sessions' = ScapyPacket(sessions, pkt)
              /\ frames' = Append(frames, pkt)
    /\ count' = count + 1
    /\ UNCHANGED <<backend, pc, report, tlsPairs, factPairs, skeKeys, sessionsB>>
    /\ UNCHANGED mainVars
    /\ UNCHANGED parserVars

TSharkOrderFrame ==
    /\ pc = "loop"
    /\ backend = "tshark"
    /\ count < MaxOrderFrames
    /\ \E conn \in Connections, p \in TSharkOrderPayloads :
          LET line == TSharkOutputLine(conn, p, count + 1)
          IN  /\ sessions' = TSharkLine(sessions, line)
              /\ frames' = Append(frames, line)
    /\ count' = count + 1
    /\ UNCHANGED <<backend, pc, report, tlsPairs, factPairs, skeKeys, sessionsB>>
    /\ UNCHANGED mainVars
    /\ UNCHANGED parserVars

NextOrder == ScapyOrderFrame \/ TSharkOrderFrame \/ Analyze \/ Report

SpecOrder == Init /\ [][NextOrder]_vars

-----------------------------------------------------------------------------
(* main: the choice of the analyzer, the report, the exit status            *)
(*                                                                         *)
(* pc is "main_tshark" before the block `# Try tshark`, "main_scapy" before *)
(* the block `# Try scapy if needed`, "main_report" before generate_report, *)
(* "reported" after the report was written or printed (exit status 0),     *)
(* "exited" after sys.exit(1), "crashed" after an uncaught exception        *)
(* (traceback, exit status 1), "hung" while subprocess.run, called without  *)
(* a timeout, waits for a tshark that does not end.                        *)

\* for pkt in packets, on the whole capture
RECURSIVE ScapyLoop(_, _)
ScapyLoop(sess, pkts) ==
    IF pkts = <<>> THEN sess ELSE ScapyLoop(ScapyPacket(sess, Head(pkts)), Tail(pkts))

\* ScapyAnalyzer.analyze_pcap: an exception of rdpcap or of the loop is caught
\* and [] returned.
ScapyAnalyzer_analyze_pcap(pkts, raises) ==
    IF raises THEN <<>> ELSE AnalyzeAll(ScapyLoop(<<>>, pkts))

\* for line in result.stdout..., on the whole output; a ValueError ends the loop
RECURSIVE TSharkLoop(_, _)
TSharkLoop(sess, lines) ==
    IF lines = <<>> THEN [ raised |-> FALSE, sessions |-> sess ]
    ELSE IF TSharkRaises(Head(lines)) THEN [ raised |-> TRUE, sessions |-> sess ]
    ELSE TSharkLoop(TSharkLine(sess, Head(lines)), Tail(lines))

\* TSharkAnalyzer.analyze_pcap: CalledProcessError (nonzero exit) is caught and
\* [] returned; no other exception is caught; subprocess.run has no timeout.
TSharkAnalyzer_analyze_pcap(lines, tshark_outcome) ==
    IF tshark_outcome = "hang" THEN [ outcome |-> "hung", sessions |-> <<>> ]
    ELSE IF tshark_outcome = "nonzero_exit" THEN [ outcome |-> "returned", sessions |-> <<>> ]
    ELSE LET loop == TSharkLoop(<<>>, lines)
         IN  IF loop.raised THEN [ outcome |-> "raised", sessions |-> <<>> ]
             ELSE [ outcome |-> "returned", sessions |-> AnalyzeAll(loop.sessions) ]

\* A plausible slip: the tshark block runs whatever the method.
TSharkBlockRuns_Always(m) == m \in {"tshark", "scapy", "both"}

\* if args.method in ["tshark", "both"]
TSharkBlockRuns(m) == m \in {"tshark", "both"}

\* if not sessions and args.method in ["scapy", "both"]
ScapyBlockRuns(m, sess) == sess = <<>> /\ m \in {"scapy", "both"}

\* The payloads of the captures main is run on.
ScapyHelloOf(c) ==
    CHOOSE p \in ScapyPayloads :
        p.has_tcp /\ p.layer = "TLS" /\ p.ch # <<>> /\ p.ch[1].ciphers = c

ScapyServerHelloOf(c) ==
    CHOOSE p \in ScapyPayloads : p.layer = "TLS" /\ p.sh # <<>> /\ p.sh[1].cipher = c

ScapyRawHello ==
    CHOOSE p \in ScapyPayloads :
        p.layer = "Raw" /\ p.tls_raises /\ parse_tls_record(p.load).ciphers # <<>>

ScapyUnreadable ==
    CHOOSE p \in ScapyPayloads :
        p.layer = "Raw" /\ p.tls_raises /\ parse_tls_record(p.load) = ManualNone

TSharkHelloOf(c) ==
    CHOOSE p \in TSharkPayloads :
        /\ p.handshake_type = <<49>>
        /\ p.tcp_layers = 1
        /\ p.ciphersuites = JoinComma([i \in DOMAIN c |-> TSharkHex(c[i])])
        /\ p.groups # <<>>

TSharkServerHelloOf(c) ==
    CHOOSE p \in TSharkPayloads : p.handshake_type = <<50>> /\ p.ciphersuite = TSharkHex(c)

TSharkTunnelled == CHOOSE p \in TSharkPayloads : p.tcp_layers = 2

TSharkShortLine == CHOOSE p \in TSharkPayloads : p.nparts < TSharkFieldCount

ScapyBareAck == CHOOSE p \in ScapyPayloads : p.layer = "none"

MainConnection == CHOOSE conn \in Connections : conn.client[2] = 5000 /\ conn.server[2] = 443
                                                 /\ LexLess(conn.client[1], conn.server[1])

\* Captures as both analyzers see them: per frame the packet Scapy reads and
\* the line tshark prints for it, if it prints one. An empty capture; the two
\* hellos of scenario A; a ClientHello that only the manual parser finds, for
\* which tshark prints a line without the requested fields; a ClientHello in a
\* tunnel over TCP, after a plain ClientHello; TCP packets without TLS, for
\* which the display filter of tshark lets no line through.
MainCaptures ==
    { <<>>,
      << [ scapy |-> ScapyBareAck, tshark |-> <<>> ],
         [ scapy |-> ScapyBareAck, tshark |-> <<>> ] >>,
      << [ scapy |-> ScapyHelloOf(<<\h0003, \h002F>>),
           tshark |-> << TSharkHelloOf(<<\h0003, \h002F>>) >> ],
         [ scapy |-> ScapyServerHelloOf(\h0003),
           tshark |-> << TSharkServerHelloOf(\h0003) >> ] >>,
      << [ scapy |-> ScapyRawHello, tshark |-> << TSharkShortLine >> ] >>,
      << [ scapy |-> ScapyHelloOf(<<\h0006>>), tshark |-> << TSharkHelloOf(<<\h0006>>) >> ],
         [ scapy |-> ScapyUnreadable, tshark |-> << TSharkTunnelled >> ] >> }

\* rdpcap(str(pcap_file))
CapturePackets(capture) ==
    [i \in DOMAIN capture |-> ScapyPkt(MainConnection, capture[i].scapy, i)]

\* result.stdout.strip().split('\n')
RECURSIVE CaptureLines(_, _)
CaptureLines(capture, i) ==
    IF i > Len(capture) THEN <<>>
    ELSE (IF capture[i].tshark = <<>> THEN <<>>
          ELSE << TSharkOutputLine(MainConnection, capture[i].tshark[1], i) >>)
         \o CaptureLines(capture, i + 1)

MainEnvs ==
    [ tshark_available : BOOLEAN, scapy_available : BOOLEAN,
      tshark_outcome : {"ok", "nonzero_exit", "hang"},
      scapy_outcome : {"ok", "raises"},
      capture : MainCaptures ]

InitMain ==
    /\ backend = "none"
    /\ pc = "main_tshark"
    /\ sessions = <<>>
    /\ count = 0
    /\ report = <<>>
    /\ tlsPairs = {}
    /\ factPairs = {}
    /\ skeKeys = {}
    /\ sessionsB = <<>>
    /\ frames = <<>>
    /\ method \in {"tshark", "scapy", "both"}
    /\ env \in MainEnvs
    /\ invoked = {}
    /\ exit_code = None
    /\ input = <<>>
    /\ parsed = ManualNone

\* The block `# Try tshark` (lines 570-581).
MainTShark ==
    /\ pc = "main_tshark"
    /\ IF TSharkBlockRuns(method) /\ env.tshark_available
       THEN LET r == TSharkAnalyzer_analyze_pcap(CaptureLines(env.capture, 1),
                                                 env.tshark_outcome)
            IN  /\ invoked' = invoked \cup {"tshark"}
                /\ sessions' = r.sessions
                /\ pc' = CASE r.outcome = "returned" -> "main_scapy"
                            [] r.outcome = "raised" -> "crashed"
                            [] r.outcome = "hung" -> "hung"
                /\ exit_code' = IF r.outcome = "raised" THEN 1 ELSE exit_code
       ELSE IF TSharkBlockRuns(method) /\ method = "tshark"
       THEN /\ pc' = "exited"
            /\ exit_code' = 1
            /\ UNCHANGED <<sessions, invoked>>
       ELSE /\ pc' = "main_scapy"
            /\ UNCHANGED <<sessions, invoked, exit_code>>
    /\ UNCHANGED <<backend, count, report, tlsPairs, factPairs, skeKeys, sessionsB, frames,
                   method, env>>
    /\ UNCHANGED parserVars

\* The block `# Try scapy if needed` (lines 583-593).
MainScapy ==
    /\ pc = "main_scapy"
    /\ IF ScapyBlockRuns(method, sessions) /\ env.scapy_available
       THEN /\ invoked' = invoked \cup {"scapy"}
            /\ sessions' = ScapyAnalyzer_analyze_pcap(CapturePackets(env.capture),
                                                      env.scapy_outcome = "raises")
            /\ pc' = "main_report"
            /\ UNCHANGED exit_code
       ELSE IF ScapyBlockRuns(method, sessions) /\ method = "scapy"
       THEN /\ pc' = "exited"
            /\ exit_code' = 1
            /\ UNCHANGED <<sessions, invoked>>
       ELSE /\ pc' = "main_report"
            /\ UNCHANGED <<sessions, invoked, exit_code>>
    /\ UNCHANGED <<backend, count, report, tlsPairs, factPairs, skeKeys, sessionsB, frames,
                   method, env>>
    /\ UNCHANGED parserVars

\* generate_report, the report written or printed, the end of main (lines 595-602).
MainReport ==
    /\ pc = "main_report"
    /\ report' = generate_report(sessions)
    /\ pc' = "reported"
    /\ exit_code' = 0
    /\ UNCHANGED <<backend, sessions, count, tlsPairs, factPairs, skeKeys, sessionsB, frames,
                   method, env, invoked>>
    /\ UNCHANGED parserVars

NextMain == MainTShark \/ MainScapy \/ MainReport

SpecMain == InitMain /\ [][NextMain]_vars

-----------------------------------------------------------------------------
(* Properties *)

\* The unordered pair of the endpoints recorded in a session.
SessionPair(s) == { <<s.src_ip, s.src_port>>, <<s.dst_ip, s.dst_port>> }

Classified == pc \in {"analyzed", "reported"}

\* C1: total_sessions equals the number of distinct endpoint pairs
\* for which at least one frame yielded a handshake fact; a frame with TLS data
\* but no fact adds no session.
C1_TotalCountsFactPairs ==
    pc = "reported" => report.analysis_metadata.total_sessions = Cardinality(factPairs)

\* What the code does instead: total_sessions is the number of distinct endpoint
\* pairs of the frames that passed the loop's skip guards (TLS data and complete
\* addresses; a tshark line with all its fields), with or without a fact.
TotalCountsTlsPairs ==
    pc = "reported" => report.analysis_metadata.total_sessions = Cardinality(tlsPairs)

\* C2: a frame from A:p to B:q and a frame from B:q to A:p resolve to the same
\* session id, and the session map never holds two sessions for one unordered
\* endpoint pair.
C2_OneSessionPerPair ==
    /\ \A i \in DOMAIN sessions :
          LET s == sessions[i]
          IN  /\ SessionId(s.src_ip, s.src_port, s.dst_ip, s.dst_port) = s.session_id
              /\ SessionId(s.dst_ip, s.dst_port, s.src_ip, s.src_port) = s.session_id
    /\ \A i, j \in DOMAIN sessions :
          SessionPair(sessions[i]) = SessionPair(sessions[j]) => i = j

\* C2 witness: two frames of opposite directions (a ClientHello and a
\* ServerHello) were folded into one session.
C2_Witness ==
    /\ pc = "loop"
    /\ count = 2
    /\ Len(sessions) = 1
    /\ sessions[1].client_ciphers # <<>>
    /\ sessions[1].server_cipher # None

\* C3: reading the ServerHello before the ClientHello of the same connection
\* yields the same session key (one session, same id) and the same final flags
\* as reading the ClientHello first.
C3_SwapSameKeyAndFlags ==
    pc = "swapped" =>
        /\ Len(sessions) = 1
        /\ Len(sessionsB) = 1
        /\ sessions[1].session_id = sessionsB[1].session_id
        /\ sessions[1].vulnerabilities = sessionsB[1].vulnerabilities

\* C3 witness: both orders were run on hellos that carry facts, and the run
\* that read the ServerHello first created the session from the server's frame.
C3_Witness ==
    /\ pc = "swapped"
    /\ sessions[1].client_ciphers # <<>>
    /\ sessions[1].server_cipher # None
    /\ sessions[1].vulnerabilities # <<>>
    /\ sessionsB[1].src_port = 443
    /\ sessions[1].src_port # 443

\* C4: a classified session whose selected cipher is in a weak class's set
\* carries the class's selected flag and never the class's offered flag,
\* whatever the client offered.
C4_SelectedSuppressesOffered ==
    Classified =>
        \A i \in DOMAIN sessions :
            LET s == sessions[i]
            IN  /\ s.server_cipher \in EXPORT_CIPHERS =>
                      /\ Contains(s.vulnerabilities, "EXPORT_GRADE_CIPHER")
                      /\ ~Contains(s.vulnerabilities, "EXPORT_CIPHER_OFFERED")
                /\ s.server_cipher \in RC4_CIPHERS =>
                      /\ Contains(s.vulnerabilities, "RC4_CIPHER")
                      /\ ~Contains(s.vulnerabilities, "RC4_CIPHER_OFFERED")

\* C4 witness: a classified session whose selected cipher is in both sets while
\* the client offered export and RC4 suites.
C4_Witness ==
    /\ Classified
    /\ sessions[1].server_cipher = \h0003
    /\ sessions[1].client_ciphers = <<\h0006, \h0004>>

\* Scenario A: the report of one session, ClientHello offering 0x0003 and 0x002F,
\* ServerHello selecting 0x0003.
ScenarioA ==
    /\ pc = "reported"
    /\ Len(sessions) = 1
    /\ sessions[1].client_ciphers = <<\h0003, \h002F>>
    /\ sessions[1].server_cipher = \h0003

\* C5 (as stated): in scenario A the report has total_sessions = 1,
\* vulnerable_sessions = 1, export_grade_ciphers = 1 and the flag list is exactly
\* [EXPORT_GRADE_CIPHER], without EXPORT_CIPHER_OFFERED.
C5_ScenarioA_OnlyExportFlag ==
    ScenarioA =>
        /\ report.analysis_metadata.total_sessions = 1
        /\ report.analysis_metadata.vulnerable_sessions = 1
        /\ report.vulnerability_summary.export_grade_ciphers = 1
        /\ report.sessions[1].vulnerabilities = <<"EXPORT_GRADE_CIPHER">>
        /\ ~Contains(report.sessions[1].vulnerabilities, "EXPORT_CIPHER_OFFERED")

\* C5 (amended): in scenario A the report has total_sessions = 1,
\* vulnerable_sessions = 1, export_grade_ciphers = 1, rc4_ciphers = 1 and the
\* flag list is exactly [EXPORT_GRADE_CIPHER, RC4_CIPHER] (0x0003 is in both
\* sets), without EXPORT_CIPHER_OFFERED and without RC4_CIPHER_OFFERED.
C5_ScenarioA_ExportAndRc4 ==
    ScenarioA =>
        /\ report.analysis_metadata.total_sessions = 1
        /\ report.analysis_metadata.vulnerable_sessions = 1
        /\ report.vulnerability_summary.export_grade_ciphers = 1
        /\ report.vulnerability_summary.rc4_ciphers = 1
        /\ report.vulnerability_summary.export_cipher_offered = 0
        /\ report.vulnerability_summary.rc4_cipher_offered = 0
        /\ report.sessions[1].vulnerabilities = <<"EXPORT_GRADE_CIPHER", "RC4_CIPHER">>

\* C5 witness: scenario A was reported.
C5_Witness == ScenarioA /\ report.sessions[1].is_vulnerable

\* The suites of the generated secure capture.
ModernSuites == { \h1301, \h1302, \h1303, \hC02B, \hC02C, \hC02F, \hC030 }

\* C6: a capture whose sessions offer and select only modern suites and carry
\* no DH prime yields an empty flag list for every session and
\* vulnerable_sessions = 0.
C6_SecureTrafficNoFlags ==
    ( /\ pc = "reported"
      /\ \A i \in DOMAIN sessions :
            /\ \A k \in DOMAIN sessions[i].client_ciphers :
                  sessions[i].client_ciphers[k] \in ModernSuites
            /\ sessions[i].server_cipher \in ModernSuites \cup {None}
            /\ sessions[i].dh_prime_size = None )
    => /\ \A i \in DOMAIN report.sessions : report.sessions[i].vulnerabilities = <<>>
       /\ report.analysis_metadata.vulnerable_sessions = 0

\* C7: when a frame of a session carries a ServerKeyExchange whose body
\* indicates an 80-byte DH prime, the resulting session has
\* prime_size_bits = 640 and carries WEAK_DH_PARAMETERS.
C7_ScenarioC_WeakDh ==
    pc = "reported" =>
        \A pair \in skeKeys :
            \E i \in DOMAIN sessions :
                /\ SessionPair(sessions[i]) = pair
                /\ report.sessions[i].diffie_hellman.prime_size_bits = 640
                /\ Contains(report.sessions[i].vulnerabilities, "WEAK_DH_PARAMETERS")

\* C8: a classified session carries WEAK_DH_PARAMETERS if and only if its DH
\* prime size is present (not None) and strictly less than 1024, 0 included.
C8_WeakDhIffPresentAndSmall ==
    Classified =>
        \A i \in DOMAIN sessions :
            Contains(sessions[i].vulnerabilities, "WEAK_DH_PARAMETERS")
                <=> (sessions[i].dh_prime_size # None /\ sessions[i].dh_prime_size < 1024)

FlagsSorted(v) ==
    \A i \in 1..(Len(v) - 1) : ~LexLess(FlagText(v[i + 1]), FlagText(v[i]))

FlagsDistinct(v) == \A i, j \in DOMAIN v : v[i] = v[j] => i = j

\* C9: the flag list of every classified session is in sorted order and holds
\* no flag twice.
C9_FlagsSortedAndDistinct ==
    Classified =>
        \A i \in DOMAIN sessions :
            FlagsSorted(sessions[i].vulnerabilities) /\ FlagsDistinct(sessions[i].vulnerabilities)

\* C10: in every report, is_vulnerable of a session is true iff its flag list is
\* non-empty, and vulnerable_sessions is the number of sessions whose
\* is_vulnerable is true.
C10_VulnerableIffFlagged ==
    pc = "reported" =>
        /\ \A i \in DOMAIN report.sessions :
              report.sessions[i].is_vulnerable <=> report.sessions[i].vulnerabilities # <<>>
        /\ report.analysis_metadata.vulnerable_sessions =
              Cardinality({i \in DOMAIN report.sessions : report.sessions[i].is_vulnerable})

\* C10 witness: a report with a flagged session whose flags are offered flags
\* only, next to a session without flags.
C10_Witness ==
    /\ pc = "reported"
    /\ Len(report.sessions) = 2
    /\ report.analysis_metadata.vulnerable_sessions = 1
    /\ \E i \in DOMAIN report.sessions :
          /\ report.sessions[i].is_vulnerable
          /\ ~Contains(report.sessions[i].vulnerabilities, "EXPORT_GRADE_CIPHER")
          /\ ~Contains(report.sessions[i].vulnerabilities, "RC4_CIPHER")

-----------------------------------------------------------------------------
(* What a consumed frame carried, told from the frame alone *)

\* The loop body ran to its end on the frame: no `continue`, no exception.
FrameProcessed(f) ==
    IF backend = "scapy" THEN ~ScapySkips(f) ELSE ~TSharkSkips(f) /\ ~TSharkRaises(f)

FrameIsClientHello(f) ==
    IF backend = "scapy" THEN ScapyIsClientHello(f) ELSE f.handshake_type = <<49>>

FrameIsServerHello(f) ==
    IF backend = "scapy" THEN ScapyIsServerHello(f) ELSE f.handshake_type = <<50>>

\* The ids of a comma-separated list as printed, every occurrence kept.
RECURSIVE PrintedCiphers(_)
PrintedCiphers(strs) ==
    IF strs = <<>> THEN <<>>
    ELSE LET c == ParseCipherString(Strip(Head(strs)))
         IN  (IF c = None THEN <<>> ELSE <<c>>) \o PrintedCiphers(Tail(strs))

\* The cipher sequence of a ClientHello frame, in its order, duplicates kept.
FrameOfferedCiphers(f) ==
    IF backend = "scapy"
    THEN IF f.tls_raises THEN parse_tls_record(f.load).ciphers ELSE f.ch[1].ciphers
    ELSE IF f.ciphersuites = <<>> THEN <<>> ELSE PrintedCiphers(Split(f.ciphersuites, 44))

\* The cipher of a ServerHello frame; None when the frame does not show one.
FrameSelectedCipher(f) ==
    IF backend = "scapy"
    THEN IF f.tls_raises THEN parse_tls_record(f.load).cipher ELSE f.sh[1].cipher
    ELSE IF f.ciphersuite = <<>> THEN None ELSE ParseCipherString(Strip(f.ciphersuite))

\* The session of the frame's endpoints.
SessionOf(f) == sessions[CHOOSE i \in DOMAIN sessions : SessionPair(sessions[i]) = EndpointPair(f)]

\* The frame read last.
LastFrame == frames[Len(frames)]

-----------------------------------------------------------------------------

\* C11: in every report, the summary has the key export_cipher_offered (resp.
\* rc4_cipher_offered) exactly when the number of sessions carrying
\* EXPORT_CIPHER_OFFERED (resp. RC4_CIPHER_OFFERED) is nonzero.
C11_OfferedKeysOnlyWhenNonzero ==
    pc = "reported" =>
        /\ "export_cipher_offered" \in DOMAIN report.vulnerability_summary
              <=> CountFlag(sessions, "EXPORT_CIPHER_OFFERED") # 0
        /\ "rc4_cipher_offered" \in DOMAIN report.vulnerability_summary
              <=> CountFlag(sessions, "RC4_CIPHER_OFFERED") # 0

\* C12: the timestamp of a session for which a ClientHello frame was processed
\* is the capture time of a ClientHello frame of the session, also when another
\* frame of the same key was processed first.
C12_TimestampIsClientHelloTime ==
    Classified /\ backend \in {"scapy", "tshark"} =>
        \A i \in DOMAIN sessions :
            LET hellos == { k \in DOMAIN frames :
                               /\ FrameProcessed(frames[k])
                               /\ FrameIsClientHello(frames[k])
                               /\ EndpointPair(frames[k]) = SessionPair(sessions[i]) }
            IN  hellos # {} => \E k \in hellos : sessions[i].timestamp = frames[k].time

\* C13: right after a ClientHello frame was processed, the offered list of its
\* session is exactly the frame's cipher sequence: same order, duplicates kept,
\* nothing left of an earlier ClientHello of the same key.
C13_OfferedIsLastClientHello ==
    ( /\ pc = "loop"
      /\ backend \in {"scapy", "tshark"}
      /\ frames # <<>>
      /\ FrameProcessed(LastFrame)
      /\ FrameIsClientHello(LastFrame) )
    => SessionOf(LastFrame).client_ciphers = FrameOfferedCiphers(LastFrame)

\* C14: right after a ServerHello frame that shows a cipher was processed, also
\* when it is not the first of its key, the selected cipher of its session is
\* that cipher (last write wins).
C14_SelectedIsLastServerHello ==
    ( /\ pc = "loop"
      /\ backend \in {"scapy", "tshark"}
      /\ frames # <<>>
      /\ FrameProcessed(LastFrame)
      /\ FrameIsServerHello(LastFrame)
      /\ FrameSelectedCipher(LastFrame) # None )
    => SessionOf(LastFrame).server_cipher = FrameSelectedCipher(LastFrame)

\* The same with the NULL suite 0x0000 left out: every other id wins as the
\* last write, in every path of both analyzers.
SelectedIsLastNonzeroServerHello ==
    ( /\ pc = "loop"
      /\ backend \in {"scapy", "tshark"}
      /\ frames # <<>>
      /\ FrameProcessed(LastFrame)
      /\ FrameIsServerHello(LastFrame)
      /\ FrameSelectedCipher(LastFrame) # None
      /\ FrameSelectedCipher(LastFrame) # 0 )
    => SessionOf(LastFrame).server_cipher = FrameSelectedCipher(LastFrame)

\* The endpoint pairs of the processed frames, each at its first sighting.
RECURSIVE FirstSighted(_, _)
FirstSighted(fs, seen) ==
    IF fs = <<>> THEN <<>>
    ELSE LET f == Head(fs)
         IN  IF FrameProcessed(f) /\ ~Contains(seen, EndpointPair(f))
             THEN <<EndpointPair(f)>> \o FirstSighted(Tail(fs), Append(seen, EndpointPair(f)))
             ELSE FirstSighted(Tail(fs), seen)

\* The unordered endpoint pair of a reported session.
ReportedPair(d) ==
    { <<d.connection.src_ip, d.connection.src_port>>,
      <<d.connection.dst_ip, d.connection.dst_port>> }

\* C15: the sessions list of the report is in the order in which the keys were
\* first sighted in the capture; a later frame of a known key does not move
\* its session, and the order is not the sorted order of the ids.
C15_ReportInFirstSightedOrder ==
    pc = "reported" =>
        [i \in DOMAIN report.sessions |-> ReportedPair(report.sessions[i])]
            = FirstSighted(frames, <<>>)

\* C15 witness: a report of two sessions whose ids are in descending order,
\* the third frame being a later frame of the key sighted first.
C15_Witness ==
    /\ pc = "reported"
    /\ Len(frames) = 3
    /\ Len(report.sessions) = 2
    /\ LexLess(report.sessions[2].session_id, report.sessions[1].session_id)
    /\ FrameProcessed(frames[3])
    /\ EndpointPair(frames[3]) = ReportedPair(report.sessions[1])
    /\ EndpointPair(frames[2]) = ReportedPair(report.sessions[2])

-----------------------------------------------------------------------------
(* Properties of main *)

\* The tshark output of the capture holds a line the loop cannot convert.
OutputRaises == TSharkLoop(<<>>, CaptureLines(env.capture, 1)).raised

\* What ScapyAnalyzer.analyze_pcap returns on the capture of the run.
ScapySessions ==
    ScapyAnalyzer_analyze_pcap(CapturePackets(env.capture), env.scapy_outcome = "raises")

\* C16: in automatic mode ("both") with tshark unavailable and Scapy
\* unavailable, no report is written or printed and the exit status is not 0.
C16_NoBackendNoReport ==
    (method = "both" /\ ~env.tshark_available /\ ~env.scapy_available)
        => (pc # "reported" /\ exit_code # 0)

\* C17: when a backend is selected explicitly and its execution fails (tshark
\* exits nonzero, the library raises while reading the capture), the run
\* produces no report and does not exit with status 0.
C17_PinnedFailureIsFatal ==
    /\ ( /\ method = "tshark"
         /\ "tshark" \in invoked
         /\ (env.tshark_outcome # "ok" \/ OutputRaises) )
       => (pc # "reported" /\ exit_code # 0)
    /\ (method = "scapy" /\ "scapy" \in invoked /\ env.scapy_outcome = "raises")
       => (pc # "reported" /\ exit_code # 0)

\* tshark fails: absent, nonzero exit, no end, or output that cannot be read.
TSharkFails ==
    \/ ~env.tshark_available
    \/ env.tshark_outcome # "ok"
    \/ OutputRaises
    \/ \E i \in DOMAIN env.capture :
          env.capture[i].tshark # <<>> /\ env.capture[i].tshark[1].nparts < TSharkFieldCount

\* C18: in automatic mode every failure of tshark makes the run fall back to
\* Scapy (when it is available) and report Scapy's sessions; the run neither
\* crashes nor hangs.
C18_AutoFallsBackOnEveryFailure ==
    (method = "both" /\ TSharkFails /\ env.scapy_available) =>
        /\ pc \notin {"crashed", "hung"}
        /\ pc \in {"main_report", "reported"} =>
              ("scapy" \in invoked /\ sessions = ScapySessions)
        /\ pc = "reported" => report = generate_report(ScapySessions)

\* The failures on which the fallback does work: tshark absent, a nonzero
\* exit, output lines without the requested fields.
AutoFallsBackOnCaughtFailures ==
    ( /\ method = "both"
      /\ TSharkFails
      /\ env.scapy_available
      /\ env.tshark_available => env.tshark_outcome # "hang"
      /\ env.tshark_available /\ env.tshark_outcome = "ok" => ~OutputRaises ) =>
        /\ pc \notin {"crashed", "hung"}
        /\ pc \in {"main_report", "reported"} =>
              ("scapy" \in invoked /\ sessions = ScapySessions)

\* C19: when the explicitly selected backend is unavailable, the run ends with
\* exit status 1 without a report, and the other backend is never invoked.
C19_PinnedUnavailableFailsDirectly ==
    /\ (method = "tshark" /\ ~env.tshark_available) =>
          /\ invoked = {}
          /\ pc # "main_tshark" => (pc = "exited" /\ exit_code = 1)
    /\ (method = "scapy" /\ ~env.scapy_available) =>
          /\ invoked = {}
          /\ pc \notin {"main_tshark", "main_scapy"} => (pc = "exited" /\ exit_code = 1)

\* C19 witness: Scapy was selected and is unavailable, tshark is available and
\* would have found the sessions of the capture; the run has exited with 1.
C19_Witness ==
    /\ method = "scapy"
    /\ ~env.scapy_available
    /\ env.tshark_available
    /\ env.tshark_outcome = "ok"
    /\ Len(env.capture) = 2
    /\ ~OutputRaises
    /\ pc = "exited"
    /\ exit_code = 1

\* C20: a frame or output line that cannot be parsed never aborts the run,
\* and the sessions of the frames that yielded facts are in the report.
C20_UnparseableFrameNeverAborts ==
    /\ pc # "crashed"
    /\ pc = "reported" =>
          \A pair \in factPairs :
              \E i \in DOMAIN report.sessions : ReportedPair(report.sessions[i]) = pair

\* The same for the Scapy analyzer alone, whose loop raises on no packet of the
\* captures: truncated and foreign payloads are skipped or add no fact.
ScapyFrameNeverAborts ==
    backend = "scapy" =>
        /\ pc # "crashed"
        /\ pc = "reported" =>
              \A pair \in factPairs :
                  \E i \in DOMAIN report.sessions : ReportedPair(report.sessions[i]) = pair

-----------------------------------------------------------------------------
(* ManualTLSParser on byte strings of its own *)

\* n bytes that differ from each other and from 0.
PatternBytes(n) == [i \in 1..n |-> 16 + i]

\* A hello body: version, random, a session id of s bytes, a cipher-list length
\* field declaring len bytes, then n bytes (fewer than declared: the field
\* overruns the buffer; more: bytes of what follows the list).
HelloBody(s, len, n) ==
    <<3, 3>> \o Zeros(32) \o <<s>> \o [i \in 1..s |-> 200 + i]
        \o Bytes16(len) \o PatternBytes(n)

HelloBodies ==
    { HelloBody(s, len, n) : s \in {0, 2}, len \in 0..MaxCipherLen, n \in 0..(MaxCipherLen + 2) }

\* Every prefix of a byte string, the empty one and the string included.
Prefixes(b) == { SubSeq(b, 1, k) : k \in 0..Len(b) }

\* A record whose handshake length field declares extra more bytes than follow.
OverrunHandshake(msg_type, body, extra) ==
    <<22, 3, 1>> \o Bytes16(4 + Len(body)) \o <<msg_type>> \o Bytes24(Len(body) + extra) \o body

ParserInputs ==
    HelloBodies
    \cup { HandshakeRecord(t, b) : t \in {1, 2, 12}, b \in HelloBodies }
    \* records cut at every length: the record length field overruns the buffer
    \cup Prefixes(ClientHelloBytes(<<\h0003, \h002F>>))
    \cup Prefixes(ServerHelloBytes(\hC02F))
    \* well-formed records around hello bodies cut at every length
    \cup { HandshakeRecord(t, b) : t \in {1, 2}, b \in Prefixes(HelloBody(2, 4, 4)) }
    \cup { OverrunHandshake(t, HelloBody(0, 2, 2), 3) : t \in {1, 2} }
    \cup { TruncatedClientHelloBytes, ServerKeyExchangeBytes(80),
           <<23, 3, 1, 0, 1, 0>>, <<22, 3, 1, 0, 2, 1, 0>> }

InitParse ==
    /\ backend = "none"
    /\ pc = "parse"
    /\ sessions = <<>>
    /\ count = 0
    /\ report = <<>>
    /\ tlsPairs = {}
    /\ factPairs = {}
    /\ skeKeys = {}
    /\ sessionsB = <<>>
    /\ frames = <<>>
    /\ method = "none"
    /\ env = NoEnv
    /\ invoked = {}
    /\ exit_code = None
    /\ input \in ParserInputs
    /\ parsed = ManualNone

\* ManualTLSParser.parse_tls_record(input)
ParseRecord ==
    /\ pc = "parse"
    /\ parsed' = parse_tls_record(input)
    /\ pc' = "parsed_record"
    /\ UNCHANGED <<backend, sessions, count, report, tlsPairs, factPairs, skeKeys, sessionsB,
                   frames, input>>
    /\ UNCHANGED mainVars

\* ManualTLSParser.parse_client_hello(input)
ParseClientHello ==
    /\ pc = "parse"
    /\ parsed' = parse_client_hello(input)
    /\ pc' = "parsed_client_hello"
    /\ UNCHANGED <<backend, sessions, count, report, tlsPairs, factPairs, skeKeys, sessionsB,
                   frames, input>>
    /\ UNCHANGED mainVars

NextParse == ParseRecord \/ ParseClientHello

SpecParse == InitParse /\ [][NextParse]_vars

\* C27: on every byte string (empty, truncated, with length fields that
\* overrun the buffer) parse_tls_record returns without raising, which a read
\* past the end of the buffer would do, and returns None or a ClientHello or
\* ServerHello record.
C27_ParseRecordNeverRaises ==
    pc = "parsed_record" =>
        /\ parsed.type \in {"None", "ClientHello", "ServerHello"}
        /\ parsed.type # "ClientHello" => parsed.ciphers = <<>>
        /\ parsed.type # "ServerHello" => parsed.cipher = None

\* C27 witness: a well-formed record around a ClientHello body that ends
\* inside its random was parsed.
C27_Witness ==
    /\ pc = "parsed_record"
    /\ parsed.type = "ClientHello"
    /\ Len(input) > 9
    /\ Len(input) < 9 + 34

\* The ids of the complete byte pairs inside the declared bytes of the cipher
\* list of a ClientHello body, as far as the buffer holds them.
DeclaredIds(body) ==
    IF Len(body) < 35 THEN <<>>
    ELSE LET pos == 35 + body[35]
         IN  IF Len(body) < pos + 2 THEN <<>>
             ELSE LET len == body[pos + 1] * 256 + body[pos + 2]
                      declared == Slice(body, pos + 2, pos + 2 + len)
                  IN  [k \in 1..(Len(declared) \div 2) |->
                          declared[2 * k - 1] * 256 + declared[2 * k]]

IsPrefixOf(a, b) == Len(a) <= Len(b) /\ SubSeq(b, 1, Len(a)) = a

\* C28: parse_client_hello returns, in order, only ids that lie inside the
\* declared bytes of the cipher list, at most floor(L/2) of them, also when the
\* declared length L is odd.
C28_OnlyDeclaredCipherBytes ==
    pc = "parsed_client_hello" => IsPrefixOf(parsed.ciphers, DeclaredIds(input))

\* The same for even declared lengths, where it holds.
OnlyDeclaredCipherBytesWhenEven ==
    ( /\ pc = "parsed_client_hello"
      /\ Len(input) >= 35
      /\ Len(input) >= 35 + input[35] + 2
      /\ input[35 + input[35] + 2] % 2 = 0 )
    => parsed.ciphers = DeclaredIds(input)

-----------------------------------------------------------------------------
(* More properties of main *)

\* The capture holds no TLS packet.
ZeroTlsCapture ==
    \A i \in DOMAIN env.capture :
        env.capture[i].scapy.layer = "none" /\ env.capture[i].tshark = <<>>

\* A backend that the method admits is available, and the tools behave.
BackendAvailable ==
    /\ method = "tshark" => env.tshark_available
    /\ method = "scapy" => env.scapy_available
    /\ method = "both" => (env.tshark_available \/ env.scapy_available)
    /\ env.tshark_outcome = "ok"
    /\ env.scapy_outcome = "ok"

EmptyReport ==
    /\ report.analysis_metadata.total_sessions = 0
    /\ report.analysis_metadata.vulnerable_sessions = 0
    /\ \A k \in DOMAIN report.vulnerability_summary : report.vulnerability_summary[k] = 0
    /\ Len(report.sessions) = 0

TSharkSessions ==
    TSharkAnalyzer_analyze_pcap(CaptureLines(env.capture, 1), env.tshark_outcome).sessions

\* C25: in automatic mode, when tshark is available and completes without
\* failure, Scapy is not invoked and the report holds exactly the sessions of
\* tshark, also when tshark found none; the sessions are never merged.
C25_FirstSuccessWins ==
    (method = "both" /\ ~TSharkFails) =>
        /\ "scapy" \notin invoked
        /\ pc = "reported" => report = generate_report(TSharkSessions)

\* The same when tshark found at least one session, where it holds.
FirstSuccessWinsWhenSessionsFound ==
    (method = "both" /\ ~TSharkFails /\ TSharkSessions # <<>>) =>
        /\ "scapy" \notin invoked
        /\ pc = "reported" => report = generate_report(TSharkSessions)

-----------------------------------------------------------------------------
(* Rendering of cipher ids: to_dict on a session of every 16-bit id *)

\* The width of a cipher id on the wire (struct format '>H').
CipherIdBits == 16

CipherIds == 0..(2 ^ CipherIdBits - 1)

InitRender ==
    /\ backend = "none"
    /\ pc = "loop"
    /\ sessions \in { << [ TLSSession(<<>>, 0) EXCEPT
                               !.client_ciphers = <<c>>, !.server_cipher = c ] >> :
                        c \in CipherIds }
    /\ count = 0
    /\ report = <<>>
    /\ tlsPairs = {}
    /\ factPairs = {}
    /\ skeKeys = {}
    /\ sessionsB = <<>>
    /\ frames = <<>>
    /\ method = "none"
    /\ env = NoEnv
    /\ invoked = {}
    /\ exit_code = None
    /\ input = <<>>
    /\ parsed = ManualNone

SpecRender == InitRender /\ [][NextClassify]_vars

-----------------------------------------------------------------------------
(* Both analyzers on the same sequence of hello facts *)

TSharkDecimalHello ==
    CHOOSE p \in TSharkPayloads : p.handshake_type = <<49>> /\ p.ciphersuites = <<52, 44, 52>>

TSharkDecimalServerHello ==
    CHOOSE p \in TSharkPayloads : p.handshake_type = <<50>> /\ p.ciphersuite = <<53>>

ScapyRawServerHello ==
    CHOOSE p \in ScapyPayloads :
        p.layer = "Raw" /\ p.tls_raises /\ parse_tls_record(p.load).type = "ServerHello"

\* A hello as Scapy hands it to its loop and as tshark prints it: ClientHellos
\* of the offered lists, ServerHellos of the selected ciphers, a ClientHello
\* offering 0x0004 twice, a ServerHello selecting 0x0005.
FactFrames ==
    { [ scapy |-> ScapyHelloOf(c), tshark |-> TSharkHelloOf(c) ] : c \in OfferedLists }
    \cup
    { [ scapy |-> ScapyServerHelloOf(c), tshark |-> TSharkServerHelloOf(c) ] :
        c \in SelectedCiphers }
    \cup
    { [ scapy |-> ScapyRawHello, tshark |-> TSharkDecimalHello ],
      [ scapy |-> ScapyRawServerHello, tshark |-> TSharkDecimalServerHello ] }

InitBoth ==
    /\ backend = "both"
    /\ pc = "both"
    /\ sessions = <<>>
    /\ count = 0
    /\ report = <<>>
    /\ tlsPairs = {}
    /\ factPairs = {}
    /\ skeKeys = {}
    /\ sessionsB = <<>>
    /\ frames = <<>>
    /\ method = "none"
    /\ env = NoEnv
    /\ invoked = {}
    /\ exit_code = None
    /\ input = <<>>
    /\ parsed = ManualNone

\* The next hello of the capture goes through the loop body of
\* TSharkAnalyzer (sessions) and through that of ScapyAnalyzer (sessionsB).
BothFrame ==
    /\ pc = "both"
    /\ count < MaxFrames
    /\ \E conn \in Connections, f \in FactFrames :
          /\ sessions' = TSharkLine(sessions, TSharkOutputLine(conn, f.tshark, count + 1))
          /\ sessionsB' = ScapyPacket(sessionsB, ScapyPkt(conn, f.scapy, count + 1))
          /\ frames' = Append(frames, f)
    /\ count' = count + 1
    /\ UNCHANGED <<backend, pc, report, tlsPairs, factPairs, skeKeys>>
    /\ UNCHANGED mainVars
    /\ UNCHANGED parserVars

NextBoth == BothFrame

SpecBoth == InitBoth /\ [][NextBoth]_vars

-----------------------------------------------------------------------------
(* Properties of the report's sessions *)

\* C22: every session of a report has a non-empty client_offered list whose
\* entries have an id and a name, also a session of which only the ServerHello
\* or only a TLS frame without facts was captured.
C22_EverySessionHasOffered ==
    pc = "reported" =>
        \A i \in DOMAIN report.sessions :
            LET offered == report.sessions[i].cipher_suites.client_offered
            IN  /\ Len(offered) > 0
                /\ \A k \in DOMAIN offered : {"id", "name"} \subseteq DOMAIN offered[k]

\* The id and name are there whenever the list has entries.
OfferedEntriesHaveIdAndName ==
    pc = "reported" =>
        \A i \in DOMAIN report.sessions :
            LET offered == report.sessions[i].cipher_suites.client_offered
            IN  \A k \in DOMAIN offered : {"id", "name"} \subseteq DOMAIN offered[k]

\* "0x" and exactly 4 hex digits, the letters in the given case.
IsHexId(t, lower) ==
    /\ Len(t) = 6
    /\ t[1] = 48
    /\ t[2] = 120
    /\ \A k \in 3..6 :
          \/ t[k] >= 48 /\ t[k] <= 57
          \/ lower /\ t[k] >= 97 /\ t[k] <= 102
          \/ ~lower /\ t[k] >= 65 /\ t[k] <= 70

\* The rendered ids of a reported session next to the ids they render.
RenderedIds(i) ==
    { <<report.sessions[i].cipher_suites.client_offered[k].id, sessions[i].client_ciphers[k]>> :
        k \in DOMAIN sessions[i].client_ciphers }
    \cup
    { <<report.sessions[i].cipher_suites.server_selected[k].id, sessions[i].server_cipher>> :
        k \in DOMAIN report.sessions[i].cipher_suites.server_selected }

\* C23: every cipher id of a report renders as "0x" and exactly 4 lowercase hex
\* digits, and int(x, 16) of the rendering is the id, for every 16-bit id.
C23_LowercaseHexRoundTrip ==
    pc = "reported" =>
        \A i \in DOMAIN report.sessions :
            \A r \in RenderedIds(i) : IsHexId(r[1], TRUE) /\ ParseInt(r[1], 16) = r[2]

\* What the code renders: the letters are upper case; the round trip holds.
UppercaseHexRoundTrip ==
    pc = "reported" =>
        \A i \in DOMAIN report.sessions :
            \A r \in RenderedIds(i) : IsHexId(r[1], FALSE) /\ ParseInt(r[1], 16) = r[2]

\* C24: the name of a cipher id that is not in the registry embeds the id: two
\* distinct unknown ids of a reported session have two distinct names.
C24_UnknownNamesEmbedId ==
    pc = "reported" =>
        \A i \in DOMAIN report.sessions :
            LET offered == report.sessions[i].cipher_suites.client_offered
            IN  \A a, b \in DOMAIN offered :
                    ( /\ sessions[i].client_ciphers[a] # sessions[i].client_ciphers[b]
                      /\ sessions[i].client_ciphers[a] \notin DOMAIN CIPHER_SUITE_NAMES
                      /\ sessions[i].client_ciphers[b] \notin DOMAIN CIPHER_SUITE_NAMES )
                    => offered[a].name # offered[b].name

\* What a backend fold is compared on.
Facts(sess) ==
    [i \in DOMAIN sess |->
        [ session_id      |-> sess[i].session_id,
          client_ciphers  |-> sess[i].client_ciphers,
          server_cipher   |-> sess[i].server_cipher,
          vulnerabilities |-> Vulnerabilities(sess[i]) ]]

\* C26: fed the same sequence of ClientHello and ServerHello facts, the tshark
\* fold and the Scapy fold end with the same session keys, offered lists,
\* selected ciphers and flags.
C26_BackendsInterchangeable ==
    pc = "both" => Facts(sessions) = Facts(sessionsB)

\* The session keys, in their order, do agree.
BackendsAgreeOnKeys ==
    pc = "both" =>
        [i \in DOMAIN sessions |-> sessions[i].session_id]
            = [i \in DOMAIN sessionsB |-> sessionsB[i].session_id]

\* C29: server_selected of a serialized session is null exactly when no
\* ServerHello cipher was recorded; a recorded cipher of any id, 0x0000
\* included, serializes as an object with id and name.
C29_SelectedNullIffNotRecorded ==
    pc = "reported" =>
        \A i \in DOMAIN report.sessions :
            LET selected == report.sessions[i].cipher_suites.server_selected
            IN  /\ selected = <<>> <=> sessions[i].server_cipher = None
                /\ selected # <<>> => {"id", "name"} \subseteq DOMAIN selected[1]

\* The same with 0x0000 left out, where it holds.
SelectedNullIffNotRecordedNonzero ==
    pc = "reported" =>
        \A i \in DOMAIN report.sessions :
            LET selected == report.sessions[i].cipher_suites.server_selected
            IN  sessions[i].server_cipher # 0 =>
                    (selected = <<>> <=> sessions[i].server_cipher = None)

\* The first processed frame of the session's endpoints.
FirstFrameOf(s) ==
    frames[CHOOSE k \in DOMAIN frames :
              /\ FrameProcessed(frames[k])
              /\ EndpointPair(frames[k]) = SessionPair(s)
              /\ \A j \in 1..(k - 1) :
                    ~(FrameProcessed(frames[j]) /\ EndpointPair(frames[j]) = SessionPair(s))]

\* C30: the connection block of a session is that of the first-sighted frame of
\* its key at every moment of the run (no later frame changes it), src being
\* the sender of that frame; the four fields are non-null in every reported
\* session.
C30_ConnectionFromFirstFrame ==
    /\ \A i \in DOMAIN sessions :
          LET s == sessions[i]
              f == FirstFrameOf(s)
          IN  /\ s.src_ip = f.src_ip /\ s.src_port = f.src_port
              /\ s.dst_ip = f.dst_ip /\ s.dst_port = f.dst_port
    /\ pc = "reported" =>
          \A i \in DOMAIN report.sessions :
              LET c == report.sessions[i].connection
              IN  /\ c.src_ip = sessions[i].src_ip /\ c.src_port = sessions[i].src_port
                  /\ c.dst_ip = sessions[i].dst_ip /\ c.dst_port = sessions[i].dst_port
                  /\ c.src_ip # NoStr /\ c.dst_ip # NoStr
                  /\ c.src_port # None /\ c.dst_port # None

\* C30 witness: a reported session created from a server's frame, after which
\* a ClientHello of the same key was processed: src is the server.
C30_Witness ==
    /\ pc = "reported"
    /\ Len(frames) = 2
    /\ Len(report.sessions) = 1
    /\ FrameProcessed(frames[2])
    /\ frames[2].src_port = 5000
    /\ report.sessions[1].connection.src_port = 443
    /\ Len(report.sessions[1].cipher_suites.client_offered) > 0

====
